---- MODULE Spec2Model ----
(***************************************************************************)
(* Model of the vk-bot-detector harvester (src/crawler).                   *)
(*                                                                         *)
(* The module holds several state machines over disjoint groups of         *)
(* variables; each specification drives one group and leaves the others    *)
(* at their initial value:                                                 *)
(*   SpecCrawl   : one run of crawl_posts / crawl_comments_for_post        *)
(*                 (post_crawling.py, comment_crawling.py), page by page;  *)
(*   SpecCrawlFair : the same, the crawl's steps being taken;              *)
(*   SpecLimiter : AdaptiveRateLimiter and SessionPool (session_pool.py)   *)
(*                 called by concurrent workers, with time;                *)
(*   SpecLocks   : the limiter's and the pool's methods called by the same  *)
(*                 threads, a bounded number of calls;                     *)
(*   Spec        : run_pipeline_for_group and parallel_map (pipeline.py),  *)
(*                 task by task, using the limiter's and pool's methods;   *)
(*   SpecRetry   : one call of requests_get_with_retries (botnadzor.py),   *)
(*                 attempt by attempt;                                     *)
(*   SpecStore   : save_posts, save_comments and save_profile               *)
(*                 (src/storage), call by call, each a transaction;        *)
(*   SpecDate    : one call of normalize_date (helpers.py).                *)
(***************************************************************************)
EXTENDS Integers, Sequences, FiniteSets, Bags, TLC

\* Python's None, where the other values are integers.
None == -999

Min(a, b) == IF a <= b THEN a ELSE b
Max(a, b) == IF a >= b THEN a ELSE b

Range(s) == {s[i] : i \in 1..Len(s)}

SeqsUpTo(S, n) == UNION {[1..k -> S] : k \in 0..n}

(***************************************************************************)
(* ------------------------------  STATE  -------------------------------- *)
(***************************************************************************)

\* One run of crawl_posts or crawl_comments_for_post.
VARIABLES
  kind,          \* "posts" | "comments": which crawl function runs
  max_items,     \* max_posts / max_comments
  by_id,         \* all_posts / all_comments: the dedup dict, in insertion order
  offset,        \* the cursor of the next paginated request
  page_size,     \* posts: page_size; comments: set per page
  cpc,           \* "initial" | "threads" | "loop" | "done" | "raised"
  phase,         \* "initial" | "outer": which page's threads are being crawled
  new_cnt,       \* new_cnt of the outer page whose threads are being crawled
  thread_queue,  \* markers of the current page not yet crawled
  thread_cur,    \* <<thread_id, offset>> of the running _crawl_thread_into, or <<>>
  outer_pages,   \* history: number of feed pages parsed, the first page included
  fetched_keys,  \* history: keys seen on any parsed page
  thread_keys,   \* history: keys seen on parsed thread pages
  flat_and_thread, \* history: some key was seen on a feed page and on a thread page
  last_new,      \* history: new_cnt of the last parsed paginated page, or None
  last_seen,     \* history: per key, the entity as the latest parsed page showed it
  thread_requests, \* history: the offsets requested so far by the latest thread sub-loop
  thread_added,  \* history: a thread sub-loop of the current page added a comment
  last_len,      \* history: len(batch) of the latest parsed feed page, or None
  result         \* the returned list (<<>> until the crawl returns)

crawlVars == <<kind, max_items, by_id, offset, page_size, cpc, phase, new_cnt,
               thread_queue, thread_cur, outer_pages, fetched_keys, thread_keys, flat_and_thread, last_new,
               last_seen, thread_requests, thread_added, last_len, result>>

\* AdaptiveRateLimiter, its callers and the clock.
VARIABLES
  current_delay,
  success_count,
  error_count,
  age,           \* time.time() - last_request_time, up to AgeCap
  lock,          \* the holder of AdaptiveRateLimiter.lock, or NoWorker
  wpc,           \* per worker: "idle" | "wait" (in wait, lock held) | "breaker"
  sleep_left,    \* per worker: what is left of its time.sleep
  streak,        \* history: report_success calls since the last report_error,
                 \* reset or decrease of current_delay
  last_waiter,   \* history: the worker whose wait() returned last, or NoWorker
  lim_calls,     \* history: the limiter calls begun so far, counted up to MaxLimCalls
  got_delay      \* what the latest get_current_delay() returned, or None

limVars == <<current_delay, success_count, error_count, age, lock, wpc, sleep_left,
             streak, last_waiter, lim_calls, got_delay>>

\* What the actions of one part leave alone.
\* SessionPool (session_pool.py:11-120) and its callers.
VARIABLES
  sessions,      \* self.sessions: the deque, head first
  closed,        \* the sessions on which close() has been called
  pool_lock,     \* self.lock: the caller holding it, or NoWorker
  gpc,           \* per caller: where it is inside get_session / close_all
  got,           \* per caller: the local variable `session` of get_session
  order,         \* history: the sessions handed out, in lock-acquisition order
  pool_size0     \* history: the size the pool was constructed with

poolVars == <<sessions, closed, pool_lock, gpc, got, order, pool_size0>>

\* run_pipeline_for_group (pipeline.py:25-409) and the tasks it submits.
VARIABLES
  group_name,        \* "none", "single" (one string) or "list"
  collect_from_db,   \* the flag of the same name
  use_session_pool,  \* the flag of the same name
  max_workers,       \* the argument of the same name
  fast_mode,         \* the flag of the same name
  max_jitter,        \* history: the largest jitter of a sleep performed so far, in ms
  ppc,               \* where run_pipeline_for_group is
  tasks,             \* per task <<stage, index>>: its position and its counters
  results,           \* parallel_map's results: the returned tasks, as completed
  saved_posts,       \* storage: the keys of the posts save_posts has committed
  saved_comments,    \* storage: the posts whose comments save_comments has committed
  saved_from_ids,    \* storage: the from_id values of the comments committed
  saved_profiles     \* storage: the users whose profile save_profile has committed

store == <<saved_posts, saved_comments, saved_from_ids, saved_profiles>>

pipeVars == <<group_name, collect_from_db, use_session_pool, max_workers, fast_mode,
              max_jitter, ppc, tasks,
              results, store>>

\* One call of requests_get_with_retries (botnadzor.py:127-188).
VARIABLES
  max_retries,           \* the argument of the same name
  attempt,               \* the loop variable
  rpc,                   \* "loop" | "get" | "sleep" | "returned" | "raised"
  outcomes,              \* history: per request sent, its status, or Exc
  wait,                  \* the length of the sleep in progress, in ms
  last_exc,              \* whether an exception was caught
  current_min_interval,  \* _current_min_interval, in ms
  ret                    \* the value returned: None, or the status of resp

retryVars == <<max_retries, attempt, rpc, outcomes, wait, last_exc, current_min_interval, ret>>

\* The database of src/storage and the calls of its save functions.
VARIABLES
  table,     \* "posts" | "comments" | "profiles": the table the calls write
  rows,      \* the parent rows of the table
  children,  \* the rows of its child table, a bag of [parent, val]
  clock,     \* time.time(), in seconds
  arg,       \* history: the argument of the latest call, a sequence
  sret,      \* history: "none" | "ok" | "raised", how the latest call ended
  again      \* history: the latest call repeated the argument of a call that returned

storeVars == <<table, rows, children, clock, arg, sret, again>>

\* One call of normalize_date (helpers.py:87-180).
VARIABLES
  date_text,  \* the argument: [some, toks], some FALSE for None
  now,        \* the argument: the reference time, Moscow wall time to the minute
  npc,        \* "call" | "returned" | "raised"
  date_ret    \* the value returned

dateVars == <<date_text, now, npc, date_ret>>

notCrawl == <<limVars, poolVars, pipeVars, retryVars, storeVars, dateVars>>
notLimiter == <<crawlVars, poolVars, pipeVars, retryVars, storeVars, dateVars>>
notPool == <<crawlVars, limVars, pipeVars, retryVars, storeVars, dateVars>>
notRetry == <<crawlVars, limVars, poolVars, pipeVars, storeVars, dateVars>>
notStore == <<crawlVars, limVars, poolVars, pipeVars, retryVars, dateVars>>
notDate == <<crawlVars, limVars, poolVars, pipeVars, retryVars, storeVars>>

vars == <<crawlVars, limVars, poolVars, pipeVars, retryVars, storeVars, dateVars>>

(***************************************************************************)
(* ---------------------------  PART 1: CRAWL  --------------------------- *)
(***************************************************************************)

\* Bounds of the source's pages.
MaxPageLen == 2
MaxCommentId == 3

\* The target of the run: crawl_comments_for_post(post_id, owner_id, ...).
TargetOwner == -1

\* Keys (owner_id, post_id) the source can show on a wall.
PostKeys == << <<-1, 1>>, <<-1, 2>>, <<-2, 1>> >>
CommentIds == 1..MaxCommentId

\* The timestamps the source shows for the i-th entity.  normalize_date gives
\* 0 for a date it cannot read, so one entity is seen with and without one.
TimestampsOf(i) == IF i = 1 THEN {0, 7} ELSE {i}

\* Thread-continuation markers (thread_id, start_offset) a page can carry.
ThreadMarkers == {<<1, 1>>}

\* Comments 1 and 2 are top-level; the later ids are replies of thread 1.
ThreadRootOf(cid) == IF cid >= 3 THEN 1 ELSE None

\* Entities as the parsers return them.  A parsed comment has no owner_id
\* yet: the crawl sets it when it merges the comment.
ParsedPosts ==
  UNION {{[owner_id |-> PostKeys[i][1], id |-> PostKeys[i][2], timestamp |-> t,
           reply_to_comment_id |-> None] : t \in TimestampsOf(i)} :
         i \in 1..Len(PostKeys)}

ParsedComments ==
  UNION {{[owner_id |-> None, id |-> c, timestamp |-> t,
           reply_to_comment_id |-> ThreadRootOf(c)] : t \in TimestampsOf(c)} :
         c \in CommentIds}

\* max_posts / max_comments: None, 0, or a positive cap.
Caps == {None, 0, 2}

\* OFFSET_STEP, passed as offset= by the pipeline; the default page size.
OFFSET_STEP == 10
DefaultPageSize == 10

Key(k, e) == IF k = "posts" THEN <<e.owner_id, e.id>> ELSE e.id

\* dict: a sequence of entities with distinct keys, in insertion order.
DictKeys(k, d) == {Key(k, d[i]) : i \in 1..Len(d)}

\* d[key] = e: replaces the value in place when the key is present,
\* appends it otherwise (post_crawling.py:219, comment_crawling.py:322).
DictSet(k, d, e) ==
  IF Key(k, e) \in DictKeys(k, d)
  THEN [i \in 1..Len(d) |-> IF Key(k, d[i]) = Key(k, e) THEN e ELSE d[i]]
  ELSE Append(d, e)

\* The merge without its "not in" test.
DictSetIfNewAppend(k, d, e) == Append(d, e)

\* if key not in d: d[key] = e
DictSetIfNew(k, d, e) ==
  IF Key(k, e) \in DictKeys(k, d) THEN d ELSE Append(d, e)

\* The parsers keep the first segment of each id of a page
\* (post_crawling.py:126-130, comment_crawling.py:186-188).
RECURSIVE ParseBatch(_, _, _)
ParseBatch(k, raw, acc) ==
  IF raw = <<>> THEN acc
  ELSE ParseBatch(k, Tail(raw),
                  IF Key(k, Head(raw)) \in DictKeys(k, acc) THEN acc
                  ELSE Append(acc, Head(raw)))

\* c["owner_id"] = owner_id, for a comment being merged.
WithOwner(k, e) == IF k = "comments" THEN [e EXCEPT !.owner_id = TargetOwner] ELSE e

\* The first page seeds the dict by plain assignment.
RECURSIVE SeedAll(_, _, _)
SeedAll(k, d, batch) ==
  IF batch = <<>> THEN d
  ELSE SeedAll(k, DictSet(k, d, WithOwner(k, Head(batch))), Tail(batch))

\* Later pages and thread pages add only the keys not yet present.
RECURSIVE MergeNew(_, _, _)
MergeNew(k, d, batch) ==
  IF batch = <<>> THEN d
  ELSE MergeNew(k, DictSetIfNew(k, d, WithOwner(k, Head(batch))), Tail(batch))

\* What the pages parsed so far showed last for each key: the entities of
\* the batch replace those of the same key.
Observed(k, seen, batch) ==
  {e \in seen : Key(k, e) \notin DictKeys(k, batch)}
    \cup {WithOwner(k, batch[i]) : i \in 1..Len(batch)}

NewCount(k, d, batch) == Cardinality(DictKeys(k, batch) \ DictKeys(k, d))

Truthy(c) == c /= None /\ c /= 0

\* posts.sort(key=timestamp, reverse=True)
PostLess(a, b) == a.timestamp > b.timestamp

\* The comment order by timestamp alone.
CommentLessByTime(a, b) == a.timestamp < b.timestamp

\* comments.sort(key=(reply_to_comment_id is not None, timestamp))
IsReply(c) == IF c.reply_to_comment_id /= None THEN 1 ELSE 0
CommentLess(a, b) ==
  \/ IsReply(a) < IsReply(b)
  \/ IsReply(a) = IsReply(b) /\ a.timestamp < b.timestamp

SortsBefore(k, a, b) == IF k = "posts" THEN PostLess(a, b) ELSE CommentLess(a, b)

\* list.sort is stable: x goes before the first element it is strictly less than.
RECURSIVE InsertSorted(_, _, _)
InsertSorted(k, x, s) ==
  IF s = <<>> THEN <<x>>
  ELSE IF SortsBefore(k, x, Head(s)) THEN <<x>> \o s
  ELSE <<Head(s)>> \o InsertSorted(k, x, Tail(s))

RECURSIVE StableSort(_, _, _)
StableSort(k, s, acc) ==
  IF s = <<>> THEN acc
  ELSE StableSort(k, Tail(s), InsertSorted(k, Head(s), acc))

Take(s, n) == SubSeq(s, 1, Min(n, Len(s)))

\* The tail of crawl_posts with the truncation done before the sort.
FinishPostsTruncateFirst(d, cap) ==
  IF Truthy(cap) THEN StableSort("posts", Take(d, cap), <<>>) ELSE StableSort("posts", d, <<>>)

\* The tail of crawl_posts (263-268) and of crawl_comments_for_post (394-402).
FinishPosts(d, cap) ==
  LET posts == StableSort("posts", d, <<>>)
  IN IF Truthy(cap) THEN Take(posts, cap) ELSE posts

FinishComments(d, cap) ==
  LET comments == StableSort("comments", d, <<>>)
  IN IF d /= <<>> /\ cap /= None THEN Take(comments, cap) ELSE comments

Finish(k, d, cap) == IF k = "posts" THEN FinishPosts(d, cap) ELSE FinishComments(d, cap)

\* What a request can bring back: an exception (raise_for_status or a
\* connection error), a payload shorter than the threshold, or a page.
Entities(k) == IF k = "posts" THEN ParsedPosts ELSE ParsedComments
Markers(k) == IF k = "posts" THEN {<<>>} ELSE SeqsUpTo(ThreadMarkers, 1)
Pages(k) == [items : SeqsUpTo(Entities(k), MaxPageLen), threads : Markers(k)]

CrawlInit ==
  /\ kind \in {"posts", "comments"}
  /\ max_items \in Caps
  /\ by_id = <<>>
  /\ offset = OFFSET_STEP
  /\ page_size = DefaultPageSize
  /\ cpc = "initial"
  /\ phase = "initial"
  /\ new_cnt = 0
  /\ thread_queue = <<>>
  /\ thread_cur = <<>>
  /\ outer_pages = 0
  /\ fetched_keys = {}
  /\ thread_keys = {}
  /\ flat_and_thread = FALSE
  /\ last_new = None
  /\ last_seen = {}
  /\ thread_requests = <<>>
  /\ thread_added = FALSE
  /\ last_len = None
  /\ result = <<>>

\* The crawl variables in the specifications that run no crawl.
CrawlIdle ==
  /\ kind = "posts"
  /\ max_items = None
  /\ by_id = <<>>
  /\ offset = OFFSET_STEP
  /\ page_size = DefaultPageSize
  /\ cpc = "done"
  /\ phase = "initial"
  /\ new_cnt = 0
  /\ thread_queue = <<>>
  /\ thread_cur = <<>>
  /\ outer_pages = 0
  /\ fetched_keys = {}
  /\ thread_keys = {}
  /\ flat_and_thread = FALSE
  /\ last_new = None
  /\ last_seen = {}
  /\ thread_requests = <<>>
  /\ thread_added = FALSE
  /\ last_len = None
  /\ result = <<>>

\* break; sort; truncate; return
Return(d) ==
  /\ cpc' = "done"
  /\ result' = Finish(kind, d, max_items)

\* An exception leaves the crawl function: nothing is returned.
Raise ==
  /\ cpc' = "raised"
  /\ UNCHANGED <<by_id, offset, page_size, phase, new_cnt, thread_queue,
                 thread_cur, outer_pages, fetched_keys, thread_keys, flat_and_thread, last_new,
                 last_seen, thread_added, last_len, result>>

\* http_get_initial, parse, seed (crawl_posts 212-224; comments 310-339).
FirstPage ==
  /\ cpc = "initial"
  /\ UNCHANGED <<kind, max_items, thread_requests>>
  /\ UNCHANGED notCrawl
  /\ \/ Raise
     \/ \E p \in Pages(kind) :
          LET batch == ParseBatch(kind, p.items, <<>>) IN
          /\ by_id' = SeedAll(kind, by_id, batch)
          /\ last_seen' = Observed(kind, last_seen, batch)
          /\ thread_added' = FALSE
          /\ last_len' = Len(batch)
          /\ outer_pages' = outer_pages + 1
          /\ fetched_keys' = fetched_keys \cup DictKeys(kind, batch)
          /\ flat_and_thread' = (flat_and_thread \/ DictKeys(kind, batch) \cap thread_keys /= {})
          /\ IF kind = "posts"
             THEN /\ page_size' = (IF Len(batch) /= 0 THEN Len(batch) ELSE DefaultPageSize)
                  /\ offset' = page_size'
             ELSE UNCHANGED <<page_size, offset>>
          /\ phase' = "initial"
          /\ thread_queue' = p.threads
          /\ cpc' = IF p.threads = <<>> THEN "loop" ELSE "threads"
          /\ UNCHANGED <<new_cnt, thread_cur, thread_keys, last_new, result>>

\* The loop without its "new_cnt == 0 -> break".
AfterOuterPageNoStop(d, n, size) ==
  /\ offset' = offset + size
  /\ cpc' = "loop"
  /\ UNCHANGED result

\* After the threads of a paginated page: stop on new_cnt == 0, else advance.
AfterOuterPage(d, n, size) ==
  IF n = 0
  THEN /\ Return(d)
       /\ UNCHANGED offset
  ELSE /\ offset' = offset + size
       /\ cpc' = "loop"
       /\ UNCHANGED result

\* One iteration of the while loop (crawl_posts 226-261; comments 341-392),
\* up to the first thread request of the page, if any.
NextPage ==
  /\ cpc = "loop"
  /\ UNCHANGED <<kind, max_items, thread_requests>>
  /\ UNCHANGED notCrawl
  /\ IF Truthy(max_items) /\ Len(by_id) >= max_items
     THEN /\ Return(by_id)
          /\ UNCHANGED <<by_id, offset, page_size, phase, new_cnt, thread_queue,
                         thread_cur, outer_pages, fetched_keys, thread_keys, flat_and_thread, last_new,
                         last_seen, thread_added, last_len>>
     ELSE \/ Raise
          \/ \* empty or too short payload
             /\ Return(by_id)
             /\ UNCHANGED <<by_id, offset, page_size, phase, new_cnt, thread_queue,
                            thread_cur, outer_pages, fetched_keys, thread_keys, flat_and_thread, last_new,
                            last_seen, thread_added, last_len>>
          \/ \E p \in Pages(kind) :
               LET batch == ParseBatch(kind, p.items, <<>>)
                   n == NewCount(kind, by_id, batch)
                   d == MergeNew(kind, by_id, batch)
                   size == IF Len(batch) /= 0 THEN Len(batch)
                           ELSE IF kind = "posts" THEN page_size ELSE DefaultPageSize
               IN
               /\ by_id' = d
               /\ last_seen' = Observed(kind, last_seen, batch)
               /\ thread_added' = FALSE
               /\ last_len' = Len(batch)
               /\ page_size' = size
               /\ new_cnt' = n
               /\ last_new' = n
               /\ outer_pages' = outer_pages + 1
               /\ fetched_keys' = fetched_keys \cup DictKeys(kind, batch)
               /\ flat_and_thread' = (flat_and_thread \/ DictKeys(kind, batch) \cap thread_keys /= {})
               /\ phase' = "outer"
               /\ thread_queue' = p.threads
               /\ UNCHANGED <<thread_cur, thread_keys>>
               /\ IF p.threads = <<>>
                  THEN AfterOuterPage(d, n, size)
                  ELSE /\ cpc' = "threads"
                       /\ UNCHANGED <<offset, result>>

\* The end of one _crawl_thread_into call: take the next marker of the page,
\* or go on after the page.
ThreadDone(d) ==
  /\ thread_cur' = <<>>
  /\ thread_queue' = Tail(thread_queue)
  /\ IF Tail(thread_queue) /= <<>>
     THEN /\ cpc' = "threads"
          /\ UNCHANGED <<offset, result>>
     ELSE IF phase = "initial"
          THEN /\ cpc' = "loop"
               /\ UNCHANGED <<offset, result>>
          ELSE AfterOuterPage(d, new_cnt, page_size)

\* One iteration of _crawl_thread_into (comment_crawling.py:266-294).  The
\* offset of the request is the marker's start offset on every iteration.
ThreadPage ==
  /\ cpc = "threads"
  /\ thread_queue /= <<>>
  /\ UNCHANGED notCrawl
  /\ UNCHANGED <<kind, max_items, page_size, phase, new_cnt, outer_pages, last_new, last_len>>
  /\ LET cur == IF thread_cur = <<>> THEN Head(thread_queue) ELSE thread_cur IN
     /\ thread_requests' = (IF thread_cur = <<>> THEN <<cur[2]>>
                            ELSE Append(thread_requests, cur[2]))
     /\ \/ Raise
        \/ \* thread page empty or short
           /\ by_id' = by_id
           /\ UNCHANGED <<fetched_keys, thread_keys, flat_and_thread, last_seen, thread_added>>
           /\ ThreadDone(by_id)
        \/ \E items \in SeqsUpTo(Entities(kind), MaxPageLen) :
             LET batch == ParseBatch(kind, items, <<>>)
                 n == NewCount(kind, by_id, batch)
                 d == MergeNew(kind, by_id, batch)
             IN
             /\ by_id' = d
             /\ last_seen' = Observed(kind, last_seen, batch)
             /\ thread_added' = (thread_added \/ n > 0)
             /\ thread_keys' = thread_keys \cup DictKeys(kind, batch)
             /\ fetched_keys' = fetched_keys \cup DictKeys(kind, batch)
             /\ flat_and_thread' =
                  (flat_and_thread \/
                   DictKeys(kind, batch) \cap (DictKeys(kind, by_id) \ thread_keys) /= {})
             /\ IF n = 0
                THEN ThreadDone(d)
                ELSE /\ thread_cur' = cur
                     /\ UNCHANGED <<thread_queue, cpc, offset, result>>

CrawlNext == FirstPage \/ NextPage \/ ThreadPage

Returned == cpc = "done"
ResultKeys == {Key(kind, result[i]) : i \in 1..Len(result)}

\* C1: the list a crawl returns holds no two entities with the same natural
\* key ((owner_id, post_id) for posts, comment_id for comments), however the
\* ids repeat within a page, across feed pages, and between a feed page and a
\* thread page.
C1_NoDuplicateKeys ==
  Returned =>
    \A i, j \in 1..Len(result) :
      i /= j => Key(kind, result[i]) /= Key(kind, result[j])

\* A returned comment crawl in which some comment id was on a feed page and on
\* a thread page.
C1_Witness ==
  /\ Returned
  /\ kind = "comments"
  /\ flat_and_thread
  /\ Len(result) >= 2

CapReached == max_items /= None /\ Len(by_id) >= max_items

\* C2: once a paginated page brought no new key, no further feed page is
\* fetched (the loop is never entered again), and a crawl that returns without
\* having reached its cap returns exactly the keys of all the pages it parsed.
C2_StopsOnNoNewAndReturnsUnion ==
  /\ last_new = 0 => cpc /= "loop"
  /\ (Returned /\ ~CapReached) => ResultKeys = fetched_keys

\* Three feed pages, the third bringing nothing new: the crawl has returned
\* the union of the first two.
C2_Witness ==
  /\ Returned
  /\ max_items = None
  /\ outer_pages = 3
  /\ last_new = 0
  /\ Cardinality(ResultKeys) >= 2

\* C13: a page fetch that fails after at least one feed page was merged is
\* treated as end-of-feed: the crawl returns what it collected, it does not
\* raise.
C13_FetchFailureIsEndOfFeed == outer_pages >= 1 => cpc /= "raised"

Positive(cap) == cap /= None /\ cap > 0

\* C16: with a positive cap no further feed page is fetched once the dedup
\* map holds cap entities, and the returned list is the first cap entries of
\* the sorted map; with no cap (None or 0) the returned list is the whole
\* sorted map.
C16_CapTruncatesOnlyWhenConfigured ==
  /\ [](Returned =>
         /\ Positive(max_items) =>
               /\ Len(result) <= max_items
               /\ result = Take(StableSort(kind, by_id, <<>>), max_items)
         /\ ~Positive(max_items) => Len(result) = Len(by_id))
  /\ [][(Positive(max_items) /\ Len(by_id) >= max_items) => outer_pages' = outer_pages]_vars

\* C17: in the list a comment crawl returns every top-level comment precedes
\* every thread reply, and within each of the two groups the timestamps are
\* non-decreasing, the unknown timestamp 0 being the oldest.
C17_TopLevelFirstThenByTime ==
  (Returned /\ kind = "comments") =>
    \A i, j \in 1..Len(result) :
      i < j =>
        /\ result[i].reply_to_comment_id /= None => result[j].reply_to_comment_id /= None
        /\ (result[i].reply_to_comment_id = None) = (result[j].reply_to_comment_id = None) =>
             result[i].timestamp <= result[j].timestamp

\* A returned comment crawl that merged a reply first: the list starts with a
\* top-level comment of unknown timestamp, then a later top-level comment,
\* then the reply, whose timestamp is smaller than another top-level one's.
C17_Witness ==
  /\ Returned
  /\ kind = "comments"
  /\ Len(result) = 3
  /\ by_id[1].reply_to_comment_id /= None
  /\ result[1].timestamp = 0
  /\ result[2].reply_to_comment_id = None
  /\ result[3].reply_to_comment_id /= None

\* C18: the list a post crawl returns has non-increasing timestamps, and with
\* a cap it holds the max_posts posts of the dedup map with the largest
\* timestamps: every post left out is no newer than every post returned.
C18_NewestPostsFirst ==
  (Returned /\ kind = "posts") =>
    /\ \A i, j \in 1..Len(result) : i < j => result[i].timestamp >= result[j].timestamp
    /\ \A i \in 1..Len(result) : \E k \in 1..Len(by_id) : by_id[k] = result[i]
    /\ Positive(max_items) =>
         /\ Len(result) = Min(max_items, Len(by_id))
         /\ \A k \in 1..Len(by_id) :
              (\A i \in 1..Len(result) : result[i] /= by_id[k]) =>
                 \A i \in 1..Len(result) : by_id[k].timestamp <= result[i].timestamp

\* A capped post crawl whose map holds three posts, the first merged being
\* the one with the unknown timestamp, which is the one left out.
C18_Witness ==
  /\ Returned
  /\ kind = "posts"
  /\ max_items = 2
  /\ Len(by_id) = 3
  /\ Len(result) = 2
  /\ by_id[1].timestamp = 0

\* C21: when one key was shown by two pages with different field values, the
\* entity returned for it carries the values of the later page: every entity
\* of the returned list is as the latest page showing its key had it.
C21_LastWriteWins ==
  Returned => \A i \in 1..Len(result) : result[i] \in last_seen

\* C29: within one thread sub-loop the offsets of consecutive thread-page
\* requests are strictly increasing, and the sub-loop ends after a page
\* exactly when that page was empty or short or added no new comment.
C29_ThreadOffsetsIncrease ==
  /\ [](\A i, j \in 1..Len(thread_requests) :
          i < j => thread_requests[i] < thread_requests[j])
  /\ [][(cpc = "threads" /\ cpc' /= "raised") =>
          ((thread_cur' = <<>>) <=> (by_id' = by_id))]_vars

\* C30: when the thread sub-loops of a paginated page added new comments, the
\* outer loop does not stop after that page: the cursor is advanced by the
\* page size and the loop goes on to the next page.
C30_ThreadsKeepTheLoopGoing ==
  [][(cpc = "threads" /\ phase = "outer" /\ cpc' \notin {"threads", "raised"} /\ thread_added')
       => (cpc' = "loop" /\ offset' = offset + page_size)]_vars

\* C31: the cursor of the first paginated request is the size of the first
\* page's batch, or 10 when that batch is empty; a later cursor is the one
\* before plus the size of the batch just parsed; the cursor grows from one
\* paginated request to the next.
C31_CursorFollowsBatchSizes ==
  /\ []((cpc = "loop" /\ outer_pages = 1) =>
          offset = (IF last_len /= 0 THEN last_len ELSE DefaultPageSize))
  /\ [][(outer_pages >= 1 /\ offset' /= offset) =>
          (last_len' /= 0 /\ offset' = offset + last_len')]_vars
  /\ [][(cpc' = "loop" /\ phase' = "outer" /\ (cpc /= "loop" \/ outer_pages' /= outer_pages)) =>
          offset' > offset]_vars

\* C37: a crawl ends.  An outer iteration that goes on to the next request
\* has added a new key (new_cnt of them), an iteration of a thread sub-loop
\* that goes on has added one too, and so the feed pages parsed and the
\* requests of a sub-loop are bounded by the number of keys collected plus a
\* constant.
C37_CrawlTerminates ==
  /\ <>(cpc \in {"done", "raised"})
  /\ [][(cpc' = "loop" /\ phase' = "outer" /\ (cpc /= "loop" \/ outer_pages' /= outer_pages)) =>
          new_cnt' > 0]_vars
  /\ [][(cpc = "loop" /\ outer_pages' = outer_pages + 1) =>
          Len(by_id') = Len(by_id) + new_cnt']_vars
  /\ [][(cpc = "threads" /\ cpc' = "threads" /\ thread_cur' /= <<>>) =>
          Len(by_id') > Len(by_id)]_vars
  /\ [](outer_pages <= Len(by_id) + 2 /\ Len(thread_requests) <= Len(by_id) + 1)

\* A comment crawl that returned after two feed pages or more and a thread
\* sub-loop of two requests or more.
C37_Witness ==
  /\ cpc = "done"
  /\ kind = "comments"
  /\ outer_pages >= 2
  /\ Len(thread_requests) >= 2

(***************************************************************************)
(* -----------------  PART 2: RATE LIMITER AND SESSION POOL  ------------- *)
(***************************************************************************)

\* Delays and times are in hundredths of a second; a product is rounded down
\* to the unit.
min_delay == 1
max_delay == 500
\* REQUEST_SLEEP, the initial_delay run_pipeline_for_group constructs with.
initial_delay == 10
\* The streak lengths the methods test.
DecreaseAfter == 10
BreakerAfter == 3

\* Bounds: concurrent callers, and the length of an error streak.
NumWorkers == 2
MaxErrorStreak == 4
MaxLimCalls == 5

Workers == 1..NumWorkers
NoWorker == 0

\* Status codes a failed request can carry; None: no response at all.
Statuses == {429, 403, 503, 500, None}

\* time.time() - last_request_time is kept up to this value.
AgeCap == 500

LimiterInit ==
  /\ current_delay = initial_delay
  /\ success_count = 0
  /\ error_count = 0
  /\ age = AgeCap
  /\ lock = NoWorker
  /\ wpc = [w \in Workers |-> "idle"]
  /\ sleep_left = [w \in Workers |-> 0]
  /\ streak = 0
  /\ last_waiter = NoWorker
  /\ lim_calls = 0
  /\ got_delay = None

\* One more call of a limiter method has got into its with block.
Called == lim_calls' = Min(lim_calls + 1, MaxLimCalls)

\* with self.lock: the calling thread goes on once nobody holds the lock.
LockFreeAlways(l) == TRUE
LockFree(l) == l = NoWorker

\* max(self.min_delay, self.current_delay * 0.9)
DecreasedDelay(d) == Max(min_delay, (d * 9) \div 10)

\* The factor of report_error, as a fraction.
ErrorFactorFlat(status) == <<3, 2>>
ErrorFactor(status) ==
  IF status = 429 THEN <<3, 1>>
  ELSE IF status \in {403, 503} THEN <<2, 1>>
  ELSE <<3, 2>>

\* min(self.max_delay, self.current_delay * factor)
IncreasedDelayNoCeiling(d, status) == (d * ErrorFactor(status)[1]) \div ErrorFactor(status)[2]
IncreasedDelay(d, status) ==
  Min(max_delay, (d * ErrorFactor(status)[1]) \div ErrorFactor(status)[2])

\* sleep_time = self.current_delay - elapsed, when elapsed < current_delay
SleepTime(d, elapsed) == IF elapsed < d THEN d - elapsed ELSE 0

\* The body of report_success (session_pool.py:145-159).
DoReportSuccessKeepsCount ==
  /\ streak' = (streak + 1) % DecreaseAfter
  /\ error_count' = 0
  /\ success_count' = success_count + 1
  /\ current_delay' = IF success_count + 1 >= DecreaseAfter
                      THEN DecreasedDelay(current_delay)
                      ELSE current_delay
DoReportSuccess ==
  /\ streak' = (streak + 1) % DecreaseAfter
  /\ error_count' = 0
  /\ IF success_count + 1 >= DecreaseAfter
     THEN /\ current_delay' = DecreasedDelay(current_delay)
          /\ success_count' = 0
     ELSE /\ success_count' = success_count + 1
          /\ UNCHANGED current_delay

\* report_error without its "self.success_count = 0".
DoReportErrorKeepsCount(status) ==
  /\ streak' = 0
  /\ error_count' = error_count + 1
  /\ UNCHANGED success_count
  /\ current_delay' = IncreasedDelay(current_delay, status)

\* The body of report_error up to the circuit breaker (session_pool.py:163-194).
DoReportError(status) ==
  /\ streak' = 0
  /\ error_count' = error_count + 1
  /\ success_count' = 0
  /\ current_delay' = IncreasedDelay(current_delay, status)

\* wait(), first half: take the lock, read the clock, start the sleep.
WaitEnter(w) ==
  /\ wpc[w] = "idle"
  /\ LockFree(lock)
  /\ lock' = w
  /\ wpc' = [wpc EXCEPT ![w] = "wait"]
  /\ sleep_left' = [sleep_left EXCEPT ![w] = SleepTime(current_delay, age)]
  /\ Called
  /\ UNCHANGED <<current_delay, success_count, error_count, age, streak, last_waiter, got_delay>>
  /\ UNCHANGED notLimiter

\* wait(), second half: the sleep is over; last_request_time = time.time();
\* the lock is released.
WaitReturn(w) ==
  /\ wpc[w] = "wait"
  /\ sleep_left[w] = 0
  /\ age' = 0
  /\ lock' = NoWorker
  /\ wpc' = [wpc EXCEPT ![w] = "idle"]
  /\ last_waiter' = w
  /\ UNCHANGED <<current_delay, success_count, error_count, sleep_left, streak, lim_calls, got_delay>>
  /\ UNCHANGED notLimiter

ReportSuccess(w) ==
  /\ wpc[w] = "idle"
  /\ LockFree(lock)
  /\ DoReportSuccess
  /\ Called
  /\ UNCHANGED <<age, lock, wpc, sleep_left, last_waiter, got_delay>>
  /\ UNCHANGED notLimiter

\* report_error sleeping twice the delay it found, not the increased one.
ReportErrorSleepsOldDelay(w, status) ==
  /\ wpc[w] = "idle"
  /\ LockFree(lock)
  /\ error_count < MaxErrorStreak
  /\ DoReportError(status)
  /\ IF error_count' >= BreakerAfter
     THEN /\ lock' = w
          /\ wpc' = [wpc EXCEPT ![w] = "breaker"]
          /\ sleep_left' = [sleep_left EXCEPT ![w] = current_delay * 2]
     ELSE UNCHANGED <<lock, wpc, sleep_left>>
  /\ Called
  /\ UNCHANGED <<age, last_waiter, got_delay>>
  /\ UNCHANGED notLimiter

\* report_error: with error_count >= 3 the caller sleeps 2 * current_delay
\* before it leaves the with block.
ReportError(w, status) ==
  /\ wpc[w] = "idle"
  /\ LockFree(lock)
  /\ error_count < MaxErrorStreak
  /\ DoReportError(status)
  /\ IF error_count' >= BreakerAfter
     THEN /\ lock' = w
          /\ wpc' = [wpc EXCEPT ![w] = "breaker"]
          /\ sleep_left' = [sleep_left EXCEPT ![w] = current_delay' * 2]
     ELSE UNCHANGED <<lock, wpc, sleep_left>>
  /\ Called
  /\ UNCHANGED <<age, last_waiter, got_delay>>
  /\ UNCHANGED notLimiter

BreakerReturn(w) ==
  /\ wpc[w] = "breaker"
  /\ sleep_left[w] = 0
  /\ lock' = NoWorker
  /\ wpc' = [wpc EXCEPT ![w] = "idle"]
  /\ UNCHANGED <<current_delay, success_count, error_count, age, sleep_left, streak,
                 last_waiter, lim_calls, got_delay>>
  /\ UNCHANGED notLimiter

Reset(w) ==
  /\ wpc[w] = "idle"
  /\ LockFree(lock)
  /\ current_delay' = initial_delay
  /\ error_count' = 0
  /\ success_count' = 0
  /\ streak' = 0
  /\ Called
  /\ UNCHANGED <<age, lock, wpc, sleep_left, last_waiter, got_delay>>
  /\ UNCHANGED notLimiter

\* get_current_delay: with self.lock: return self.current_delay
GetCurrentDelay(w) ==
  /\ wpc[w] = "idle"
  /\ LockFree(lock)
  /\ got_delay' = current_delay
  /\ Called
  /\ UNCHANGED <<current_delay, success_count, error_count, age, lock, wpc, sleep_left,
                 streak, last_waiter>>
  /\ UNCHANGED notLimiter

\* Time goes by: exactly to the end of the sleep of a wait(), up to a short
\* pause after the last wait(), or for a long pause, which outlasts every
\* pending sleep (the circuit breaker's included).  The time since the last
\* wait() is followed up to AgeCap, which no delay exceeds.
ShortPause == 5
TimeMarks ==
  {Min(AgeCap, age + sleep_left[w]) : w \in {x \in Workers : wpc[x] = "wait"}}
    \cup {ShortPause, AgeCap}

LongestSleep == CHOOSE m \in Range(sleep_left) : \A x \in Range(sleep_left) : x <= m

TimePasses ==
  \E mark \in TimeMarks :
    LET dt == IF mark = AgeCap THEN Max(AgeCap - age, LongestSleep) ELSE mark - age IN
    /\ dt > 0
    /\ age' = mark
    /\ sleep_left' = [w \in Workers |-> Max(0, sleep_left[w] - dt)]
    /\ age' /= age \/ sleep_left' /= sleep_left
    /\ UNCHANGED <<current_delay, success_count, error_count, lock, wpc, streak,
                   last_waiter, lim_calls, got_delay>>
    /\ UNCHANGED notLimiter

LimiterNext ==
  \/ \E w \in Workers : WaitEnter(w)
  \/ \E w \in Workers : WaitReturn(w)
  \/ \E w \in Workers : ReportSuccess(w)
  \/ \E w \in Workers, st \in Statuses : ReportError(w, st)
  \/ \E w \in Workers : BreakerReturn(w)
  \/ \E w \in Workers : Reset(w)
  \/ TimePasses

\* C3: in every state of the limiter, the initial one included,
\* min_delay <= current_delay <= max_delay.
C3_DelayWithinBounds ==
  /\ min_delay <= current_delay
  /\ current_delay <= max_delay

\* The delay has been driven to its ceiling by errors, with callers around.
C3_Witness ==
  /\ current_delay = max_delay
  /\ error_count >= 1
  /\ last_waiter /= NoWorker

SuccessStep == \E w \in Workers : ReportSuccess(w)

\* C4: a report_success call leaves current_delay alone unless it is the 10th
\* since the streak counter was last zeroed (by report_error, by reset or by
\* the previous decrease); the 10th sets current_delay to
\* max(min_delay, 0.9 * current_delay), strictly below the old value unless
\* that was min_delay already, and zeroes the streak counter.
C4_TenthSuccessDecreases ==
  [][SuccessStep =>
       IF streak = 9
       THEN /\ current_delay' = Max(min_delay, (9 * current_delay) \div 10)
            /\ (current_delay > min_delay => current_delay' < current_delay)
            /\ success_count' = 0
       ELSE /\ current_delay' = current_delay
            /\ success_count' = streak + 1]_vars

\* The delay is below its initial value: a tenth success has lowered it.
C4_Witness ==
  /\ current_delay < initial_delay
  /\ current_delay > min_delay
  /\ streak = 0
  /\ error_count = 0

\* C5: one report_error(status) call sets current_delay to
\* min(max_delay, m * current_delay), m = 3 for 429, 2 for 403 and 503, 1.5 for
\* any other status and for none; it zeroes the success streak and adds
\* exactly one to the error streak.
C5_ErrorMultiplies ==
  [][\A w \in Workers, st \in Statuses :
       ReportError(w, st) =>
         /\ current_delay' =
              Min(max_delay,
                  IF st = 429 THEN 3 * current_delay
                  ELSE IF st = 403 \/ st = 503 THEN 2 * current_delay
                  ELSE (3 * current_delay) \div 2)
         /\ success_count' = 0
         /\ error_count' = error_count + 1]_vars

\* An error has raised the delay while a success streak was running... the
\* delay is above its initial value and below the ceiling after one error.
C5_Witness ==
  /\ error_count = 1
  /\ current_delay > initial_delay
  /\ current_delay < max_delay

\* C26: a report_error call that brings the error streak to 3 (or beyond)
\* sleeps 2 * current_delay, the delay as just increased, before it returns,
\* and one that leaves the streak below 3 does not sleep; the sleep leaves the
\* error streak as it is, and the streak goes back to 0 only by a
\* report_success or a reset.
C26_BreakerSleepAtThree ==
  /\ [][\A w \in Workers, st \in Statuses :
          ReportError(w, st) =>
            IF error_count + 1 >= 3
            THEN /\ wpc'[w] = "breaker"
                 /\ lock' = w
                 /\ sleep_left'[w] = 2 * current_delay'
            ELSE /\ wpc' = wpc
                 /\ lock' = lock
                 /\ sleep_left' = sleep_left]_vars
  /\ [][\A w \in Workers :
          (wpc[w] = "breaker" /\ wpc'[w] /= "breaker") =>
            /\ sleep_left[w] = 0
            /\ error_count' = error_count
            /\ error_count >= 3]_vars
  /\ [][error_count' < error_count =>
          /\ error_count' = 0
          /\ \E w \in Workers : ReportSuccess(w) \/ Reset(w)]_vars

\* A caller has slept the whole circuit-breaker sleep of a third error in a
\* row and is about to return; the error streak is still 3.
C26_Witness ==
  \E w \in Workers :
    /\ wpc[w] = "breaker"
    /\ sleep_left[w] = 0
    /\ error_count = 3
    /\ current_delay < max_delay

\* C28: current_delay goes down, other than by reset, only on the 10th
\* report_success in a row counted over all the callers, with no
\* report_error (nor reset, nor decrease) among the ten.
C28_DecreaseOnlyAfterTenSuccesses ==
  [][(current_delay' < current_delay /\ ~(\E w \in Workers : Reset(w))) =>
       (SuccessStep /\ streak = 10 - 1)]_vars

\* The delay was raised by one error without status and then lowered once
\* by ten successes in a row.
C28_Witness ==
  /\ current_delay = (((initial_delay * 3) \div 2) * 9) \div 10
  /\ success_count = 0
  /\ error_count = 0
  /\ streak = 0
  /\ last_waiter /= NoWorker

\* C6: a wait() returns (stamps last_request_time) only when at least
\* current_delay, as that call read it, has gone by since the previous wait()
\* of any worker returned.
C6_GlobalPacing ==
  [][\A w \in Workers :
       (wpc[w] = "wait" /\ wpc'[w] = "idle") => age >= current_delay]_vars

\* A worker is about to return from a wait() in which it slept until exactly
\* current_delay had gone by since another worker's wait().
C6_Witness ==
  \E w \in Workers :
    /\ wpc[w] = "wait"
    /\ sleep_left[w] = 0
    /\ age = current_delay
    /\ age < AgeCap
    /\ last_waiter \notin {w, NoWorker}

\* C38: in every state of the limiter the success streak counter and the
\* error streak counter are not both non-zero, and every report_success
\* call leaves the success streak counter between 0 and 9.
C38_StreaksExclusive ==
  /\ [](~(success_count /= 0 /\ error_count /= 0))
  /\ [](success_count >= 0 /\ error_count >= 0)
  /\ [][SuccessStep => (success_count' >= 0 /\ success_count' <= 9)]_vars

\* Nine successes in a row after an error had raised the delay: the error
\* zeroed nothing that the successes left, and the first success zeroed the
\* error streak.
C38_Witness ==
  /\ success_count = 9
  /\ error_count = 0
  /\ current_delay > initial_delay
  /\ last_waiter /= NoWorker

(***************************************************************************)
(* PART 3.  SessionPool (src/crawler/session_pool.py:11-120): N sessions   *)
(* built once, handed out by rotating a deque under one lock.  A session   *)
(* is its index of construction, 1..N.  Callers are threads; the lock, the *)
(* read of the head and the rotation are separate steps of a caller.       *)
(***************************************************************************)
MaxPoolSize == 3
MaxCalls == 5
NumCallers == 2
Callers == 1..NumCallers
PoolSizes == 1..MaxPoolSize

\* SessionPool.__init__: deque of _create_session(i) for i in range(pool_size)
NewPool(n) == [i \in 1..n |-> i]

PoolInit ==
  /\ pool_size0 \in PoolSizes
  /\ sessions = NewPool(pool_size0)
  /\ closed = {}
  /\ pool_lock = NoWorker
  /\ gpc = [c \in Callers |-> "idle"]
  /\ got = [c \in Callers |-> None]
  /\ order = <<>>

\* The pool as the other specifications hold it: built, nobody inside.
PoolIdle ==
  /\ pool_size0 = MaxPoolSize
  /\ sessions = NewPool(pool_size0)
  /\ closed = {}
  /\ pool_lock = NoWorker
  /\ gpc = [c \in Callers |-> "idle"]
  /\ got = [c \in Callers |-> None]
  /\ order = <<>>

\* `with self.lock:` can be entered
PoolLockFreeAlways(l) == TRUE
PoolLockFree(l) == l = NoWorker

\* self.sessions.rotate(-1): the head goes to the tail
Rotate(q) == IF q = <<>> THEN q ELSE Append(Tail(q), Head(q))

\* get_session as one step, for callers whose interleaving is not at issue
DoGetSession == sessions' = Rotate(sessions)

\* get_session: `with self.lock:`
GetSessionLock(c) ==
  /\ gpc[c] = "idle"
  /\ Len(order) < MaxCalls
  /\ PoolLockFree(pool_lock)
  /\ pool_lock' = c
  /\ gpc' = [gpc EXCEPT ![c] = "locked"]
  /\ UNCHANGED <<sessions, closed, got, order, pool_size0>>
  /\ UNCHANGED notPool

\* get_session: session = self.sessions[0]
GetSessionRead(c) ==
  /\ gpc[c] = "locked"
  /\ got' = [got EXCEPT ![c] = Head(sessions)]
  /\ order' = Append(order, Head(sessions))
  /\ gpc' = [gpc EXCEPT ![c] = "read"]
  /\ UNCHANGED <<sessions, closed, pool_lock, pool_size0>>
  /\ UNCHANGED notPool

\* get_session: self.sessions.rotate(-1); return session (the lock is released)
GetSessionRotate(c) ==
  /\ gpc[c] = "read"
  /\ sessions' = Rotate(sessions)
  /\ pool_lock' = IF pool_lock = c THEN NoWorker ELSE pool_lock
  /\ gpc' = [gpc EXCEPT ![c] = "idle"]
  /\ UNCHANGED <<closed, got, order, pool_size0>>
  /\ UNCHANGED notPool

\* return_session: pass
ReturnSession(c) ==
  /\ gpc[c] = "idle"
  /\ got[c] /= None
  /\ UNCHANGED poolVars
  /\ UNCHANGED notPool

\* close_all: under the lock, close() every session; the deque is not touched
CloseAll(c) ==
  /\ gpc[c] = "idle"
  /\ PoolLockFree(pool_lock)
  /\ closed' = closed \cup Range(sessions)
  /\ UNCHANGED <<sessions, pool_lock, gpc, got, order, pool_size0>>
  /\ UNCHANGED notPool

PoolNext ==
  \/ \E c \in Callers : GetSessionLock(c)
  \/ \E c \in Callers : GetSessionRead(c)
  \/ \E c \in Callers : GetSessionRotate(c)
  \/ \E c \in Callers : ReturnSession(c)
  \/ \E c \in Callers : CloseAll(c)

\* C9: with N sessions and concurrent callers, the k-th get_session in
\* lock-acquisition order (k = 0, 1, ...) returns session k mod N, so N
\* consecutive calls return N distinct sessions; the membership and the size
\* of the pool never change after construction.
C9_RoundRobin ==
  /\ \A k \in 1..Len(order) : order[k] = ((k - 1) % pool_size0) + 1
  /\ \A k \in 1..Len(order) : \A j \in 1..Len(order) :
        (k < j /\ j - k < pool_size0) => order[k] /= order[j]
  /\ Len(sessions) = pool_size0
  /\ Range(sessions) = 1..pool_size0

\* Both callers have been served, more calls than sessions were made (the
\* rotation has wrapped around), and close_all has run.
C9_Witness ==
  /\ pool_size0 = 3
  /\ Len(order) = MaxCalls
  /\ \A c \in Callers : gpc[c] = "idle" /\ got[c] /= None
  /\ got[1] /= got[2]
  /\ closed /= {}

(***************************************************************************)
(* The threads of the pipeline call the limiter and the session pool: a    *)
(* thread is worker w of the limiter and caller w of the pool, and is      *)
(* inside one call at a time.  The calls of a run are counted up to        *)
(* MaxLockCalls.                                                           *)
(***************************************************************************)
MaxLockCalls == 5

\* Thread w is between two calls and the run has calls left to make.
Begins(w) ==
  /\ wpc[w] = "idle"
  /\ gpc[w] = "idle"
  /\ lim_calls + Len(order) < MaxLockCalls

LockNext ==
  \/ \E w \in Workers : Begins(w) /\ WaitEnter(w)
  \/ \E w \in Workers : WaitReturn(w)
  \/ \E w \in Workers : Begins(w) /\ ReportSuccess(w)
  \/ \E w \in Workers, st \in Statuses : Begins(w) /\ ReportError(w, st)
  \/ \E w \in Workers : BreakerReturn(w)
  \/ \E w \in Workers : Begins(w) /\ GetCurrentDelay(w)
  \/ \E w \in Workers : Begins(w) /\ Reset(w)
  \/ \E w \in Workers : Begins(w) /\ GetSessionLock(w)
  \/ \E w \in Workers : GetSessionRead(w)
  \/ \E w \in Workers : GetSessionRotate(w)
  \/ TimePasses

\* A thread inside a with block keeps running, and a sleep ends as time
\* goes by.
LockFairness ==
  /\ WF_vars(TimePasses)
  /\ \A w \in Workers :
       /\ WF_vars(WaitReturn(w))
       /\ WF_vars(BreakerReturn(w))
       /\ WF_vars(GetSessionRead(w))
       /\ WF_vars(GetSessionRotate(w))

MaxItems == 2
MaxRequests == 2
MaxThreads == 2
Stages == 1..3
TaskIds == Stages \X (1..MaxItems)
FreshSession == 0

\* The response carried by an exception of a crawl: None when it has none
\* (a connection error), else the status raise_for_status refused.
ExcResponses == {None, 429, 503, 403}

\* Retry(total=5, status_forcelist=(429, 500, 502, 503, 504)) of the adapter
\* make_session mounts on a session of its own (helpers.py:33-40); a session
\* of the pool is a plain requests.Session() (session_pool.py:26-27), whose
\* default adapter re-sends nothing.
RetryTotal == 5
StatusForcelist == {429, 500, 502, 503, 504}

\* How many times the session sends a request that ends by raising resp.
AttemptsOf(pooled, resp) ==
  IF ~pooled /\ (resp = None \/ resp \in StatusForcelist) THEN 1 + RetryTotal ELSE 1

\* bool(resp) of a requests.Response is resp.ok: false for the 4xx and 5xx
\* statuses raise_for_status raises on.
ResponseTruthy(resp) == resp /= None /\ resp < 400

Blank ==
  [st |-> "none", waits |-> 0, requests |-> 0, since_wait |-> FALSE,
   unpaced |-> FALSE, successes |-> 0, errors |-> 0, session |-> None,
   item |-> <<>>, found |-> {}, response |-> None, attempts |-> 0]

Finished(t) == tasks[t].st \in {"done", "failed"}
Running(t) == tasks[t].st \in {"waiting", "crawling"}
StageOf(t) == t[1]
TasksOf(stage) == {t \in TaskIds : StageOf(t) = stage}

PipeInit ==
  /\ group_name \in {"none", "single", "list"}
  /\ collect_from_db \in BOOLEAN
  /\ use_session_pool \in BOOLEAN
  /\ max_workers \in 1..MaxThreads
  /\ fast_mode \in BOOLEAN
  /\ max_jitter = 0
  /\ ppc = "start"
  /\ tasks = [t \in TaskIds |-> Blank]
  /\ results = <<>>
  /\ saved_posts = {}
  /\ saved_comments = {}
  /\ saved_from_ids = {}
  /\ saved_profiles = {}

\* No pipeline run: the state the other specifications hold the pipeline in.
PipeIdle ==
  /\ group_name = "none"
  /\ collect_from_db = FALSE
  /\ use_session_pool = TRUE
  /\ max_workers = 1
  /\ fast_mode = FALSE
  /\ max_jitter = 0
  /\ ppc = "end"
  /\ tasks = [t \in TaskIds |-> Blank]
  /\ results = <<>>
  /\ saved_posts = {}
  /\ saved_comments = {}
  /\ saved_from_ids = {}
  /\ saved_profiles = {}

\* for it in items: futures.append(ex.submit(wrapped, it)).  The tasks of the
\* stages already collected are kept as "joined", their counters dropped.
Submit(stage, items) ==
  [t \in TaskIds |->
     IF StageOf(t) = stage /\ t[2] <= Len(items)
     THEN [Blank EXCEPT !.st = "queued", !.item = items[t[2]]]
     ELSE IF Finished(t) \/ tasks[t].st = "joined" THEN [Blank EXCEPT !.st = "joined"]
     ELSE tasks[t]]

\* The (owner_id, post_id) keys the walls can show: the same post_id under
\* two owners is two posts.
KeyList == [i \in 1..MaxItems |-> IF i > 1 /\ i = MaxItems THEN <<-2, 1>> ELSE <<-1, i>>]
PostAt(i) == [owner_id |-> KeyList[i][1], post_id |-> KeyList[i][2]]

\* A set of integers as the ascending list: sorted(...)
RECURSIVE Sorted(_)
Sorted(S) ==
  IF S = {} THEN <<>>
  ELSE LET m == CHOOSE x \in S : \A y \in S : x <= y
       IN <<m>> \o Sorted(S \ {m})

\* r["posts"] of a returned stage-1 task: crawl_posts' list, no key twice
PostsOfTask(t) == [i \in 1..Len(Sorted(tasks[t].found)) |-> PostAt(Sorted(tasks[t].found)[i])]

\* for r in results: if r and r["posts"]: posts.extend(r["posts"])
RECURSIVE ExtendAll(_)
ExtendAll(rs) ==
  IF rs = <<>> THEN <<>> ELSE PostsOfTask(Head(rs)) \o ExtendAll(Tail(rs))

\* The keys of the rows save_posts upserts (storage/post.py:210-219)
PostKeysOf(posts) ==
  {<<posts[i].owner_id, posts[i].post_id>> : i \in 1..Len(posts)}

\* _iter_unique_posts (pipeline.py:446-456): the keys in first-seen order
IterUniquePostsNoSeen(posts) ==
  [i \in 1..Len(posts) |-> <<posts[i].owner_id, posts[i].post_id>>]
RECURSIVE IterUniquePostsFrom(_, _)
IterUniquePostsFrom(posts, seen) ==
  IF posts = <<>> THEN <<>>
  ELSE LET p == Head(posts)
           key == <<p.owner_id, p.post_id>>
       IN IF p.owner_id = None \/ p.post_id = None
          THEN IterUniquePostsFrom(Tail(posts), seen)
          ELSE IF key \notin seen
          THEN <<key>> \o IterUniquePostsFrom(Tail(posts), seen \cup {key})
          ELSE IterUniquePostsFrom(Tail(posts), seen)
IterUniquePosts(posts) == IterUniquePostsFrom(posts, {})

\* The test with every from_id passing.
IsCommenterAny(u) == TRUE

\* from_id and isinstance(from_id, int) and from_id > 0 (line 463), and again
\* isinstance(u, int) and u > 0 (line 302)
IsCommenter(u) == u /= None /\ u /= 0 /\ u > 0

\* _collect_from_ids (pipeline.py:459-465): the from_id values that are
\* truthy, integers and positive
CollectFromIds(from_ids) == {u \in from_ids : IsCommenter(u)}

\* The from_id values the comments of one post can carry: none, users, and
\* with them a missing id, 0 and a community (negative).
CommenterSets == {{}, {1}, {MaxItems}, 1..MaxItems, {1, 0, -1, None}}

\* What the crawl of task t can return: the posts of a wall (indices of
\* KeyList), the from_id values of a post's comments, or for a profile {}
\* (no prefetch cache), a bundle with its user_id, or a bundle without one.
FoundChoices(t) ==
  IF StageOf(t) = 1 THEN SUBSET (1..MaxItems)
  ELSE IF StageOf(t) = 2 THEN CommenterSets
  ELSE {{}, {tasks[t].item[1]}, {None}}

\* Rows a query of the database can return when collect_from_db is set
DbPostKeys == {IterUniquePosts([i \in 1..Len(Sorted(S)) |-> PostAt(Sorted(S)[i])]) :
                 S \in SUBSET (1..MaxItems)}
DbUids == {Sorted(S) : S \in SUBSET (1..MaxItems)}

\* The loop of lines 218-227 over the results: save_comments, then
\* all_commenters |= _collect_from_ids(comments).  <<saved, commenters>>
RECURSIVE SaveCommentsLoop(_, _, _)
SaveCommentsLoop(rs, saved, commenters) ==
  IF rs = <<>> THEN <<saved, commenters>>
  ELSE SaveCommentsLoop(Tail(rs), saved \cup {tasks[Head(rs)].item},
                        commenters \cup CollectFromIds(tasks[Head(rs)].found))

\* save_profile (storage/profile.py:527-541) raises for a bundle whose
\* profile has no user_id.
SaveProfileRaises(bundle) == bundle = {None}

\* The loop of lines 356-363 over the results: save_profile for each truthy
\* profile; an exception of save_profile leaves the loop.  <<saved, raised>>
RECURSIVE SaveProfilesLoop(_, _)
SaveProfilesLoop(rs, saved) ==
  IF rs = <<>> THEN <<saved, FALSE>>
  ELSE LET bundle == tasks[Head(rs)].found IN
       IF bundle = {} THEN SaveProfilesLoop(Tail(rs), saved)
       ELSE IF SaveProfileRaises(bundle) THEN <<saved, TRUE>>
       ELSE SaveProfilesLoop(Tail(rs), saved \cup bundle)

\* parallel_map returns: the `with ThreadPoolExecutor` block has been left
\* and as_completed has yielded every future
AllFinishedAlways(stage) == TRUE
AllFinished(stage) ==
  \A t \in TasksOf(stage) : tasks[t].st \in {"none", "done", "failed", "joined"}

limRest == <<lock, wpc, sleep_left, last_waiter, lim_calls, got_delay>>
poolRest == <<pool_lock, gpc, got, order, pool_size0>>
config == <<group_name, collect_from_db, use_session_pool, max_workers, fast_mode>>

\* run_pipeline_for_group up to the start of stage 1 (lines 38-112)
StartStage1 ==
  /\ ppc = "start"
  /\ \/ /\ group_name = "list"
        /\ \E n \in 0..MaxItems : tasks' = Submit(1, [i \in 1..n |-> <<i>>])
        /\ ppc' = "join1"
     \/ /\ group_name = "single"
        /\ tasks' = Submit(1, << <<1>> >>)
        /\ ppc' = "inline1"
     \/ /\ group_name = "none"
        /\ tasks' = tasks
        /\ ppc' = "join1"
  /\ UNCHANGED <<config, max_jitter, results, store, crawlVars, retryVars, storeVars, dateVars, limVars, poolVars>>

\* Stage 1 is over (parallel_map has returned, or the one inline call has);
\* save_posts; the inputs of stage 2 (lines 114-148); stage 2 is submitted
\* (lines 201-208).
StartStage2 ==
  /\ \/ ppc = "join1" /\ AllFinished(1)
     \/ ppc = "inline1" /\ tasks[<<1, 1>>].st = "done"
  /\ LET posts == ExtendAll(results) IN
       /\ saved_posts' = saved_posts \cup PostKeysOf(posts)
       /\ \E post_keys \in (IF collect_from_db THEN DbPostKeys
                             ELSE {IterUniquePosts(posts)}) :
            tasks' = Submit(2, post_keys)
  /\ results' = <<>>
  /\ ppc' = "join2"
  /\ UNCHANGED <<config, max_jitter, saved_comments, saved_from_ids, saved_profiles, crawlVars, retryVars, storeVars, dateVars, limVars, poolVars>>

\* The one inline call of fetch_posts_for_group (line 110) raised: nothing
\* catches it, run_pipeline_for_group raises.
Stage1Raises ==
  /\ ppc = "inline1"
  /\ tasks[<<1, 1>>].st = "failed"
  /\ ppc' = "raised"
  /\ UNCHANGED <<config, max_jitter, tasks, results, store, crawlVars, retryVars, storeVars, dateVars, limVars, poolVars>>

\* Stage 2's parallel_map has returned; save_comments for each result; the
\* inputs of stage 3 (lines 217-303); stage 3 is submitted (lines 342-349).
StartStage3 ==
  /\ ppc = "join2"
  /\ AllFinished(2)
  /\ LET loop == SaveCommentsLoop(results, saved_comments, {})
         all_commenters == loop[2]
     IN /\ saved_comments' = loop[1]
        /\ saved_from_ids' = saved_from_ids \cup UNION {tasks[t].found : t \in Range(results)}
        /\ \E uids \in (IF collect_from_db THEN DbUids
                         ELSE {Sorted({u \in all_commenters : IsCommenter(u)})}) :
             tasks' = Submit(3, [i \in 1..Len(uids) |-> <<uids[i]>>])
  /\ results' = <<>>
  /\ ppc' = "join3"
  /\ UNCHANGED <<config, max_jitter, saved_posts, saved_profiles, crawlVars, retryVars, storeVars, dateVars, limVars, poolVars>>

\* Stage 3's parallel_map has returned; save_profile for each result
\* (lines 356-363); return, or raise what save_profile raised.
FinishPipeline ==
  /\ ppc = "join3"
  /\ AllFinished(3)
  /\ LET loop == SaveProfilesLoop(results, saved_profiles) IN
       /\ saved_profiles' = loop[1]
       /\ ppc' = IF loop[2] THEN "save_raised" ELSE "end"
  /\ UNCHANGED <<config, max_jitter, tasks, results, saved_posts, saved_comments, saved_from_ids, crawlVars, retryVars, storeVars, dateVars,
                 limVars, poolVars>>

\* Jitters are in milliseconds.  JITTER of config.py; the worker count and the
\* jitter run_pipeline_for_group settles on (lines 45-50).
JITTER == 50
FastModeWorkers == 8
PoolWorkers == IF fast_mode THEN Max(max_workers, FastModeWorkers) ELSE max_workers
jitter == IF fast_mode THEN 0 ELSE JITTER

\* hi of the jitter_range each stage passes to parallel_map (lines 95, 206,
\* 347), 0 when it passes None.
StartJitter(stage) ==
  IF stage = 1 THEN (IF jitter > 0 THEN jitter ELSE 0)
  ELSE IF stage = 2 THEN (IF jitter > 0 THEN jitter \div 2 ELSE 0)
  ELSE IF fast_mode THEN 0 ELSE (jitter * 3) \div 10

\* jitter= of the crawl calls: fetch_posts_for_group (line 72) and
\* fetch_comments_for_post (line 169) pass the constant JITTER;
\* crawl_profile_by_user_id does not sleep.
CrawlJitter(stage) == IF stage = 3 THEN 0 ELSE JITTER

\* A pool thread (or, for the inline call, the caller) is free to run t.
CanStart(t) ==
  IF ppc = "inline1" /\ StageOf(t) = 1 THEN TRUE
  ELSE Cardinality({u \in TasksOf(StageOf(t)) : Running(u)}) < PoolWorkers

\* The task starts: under parallel_map, wrapped sleeps uniform(lo, hi) when a
\* jitter_range with hi > 0 was passed (lines 426-430); then
\* s = make_session(use_pool=use_session_pool) (helpers.py:28-43); stages 2
\* and 3 go on to get_rate_limiter().wait().
TaskStart(t) ==
  /\ tasks[t].st = "queued"
  /\ CanStart(t)
  /\ max_jitter' = (IF ppc = "inline1" /\ StageOf(t) = 1 THEN max_jitter
                    ELSE Max(max_jitter, StartJitter(StageOf(t))))
  /\ IF use_session_pool
     THEN /\ DoGetSession
          /\ tasks' = [tasks EXCEPT ![t].session = Head(sessions),
                                    ![t].st = IF StageOf(t) = 1 THEN "crawling"
                                              ELSE "waiting"]
     ELSE /\ UNCHANGED sessions
          /\ tasks' = [tasks EXCEPT ![t].session = FreshSession,
                                    ![t].st = "crawling"]
  /\ UNCHANGED <<config, ppc, results, store, closed, poolRest, crawlVars, retryVars, storeVars, dateVars, limVars>>

\* get_rate_limiter().wait() of fetch_comments_for_post (lines 154-156) and
\* fetch_profile (lines 308-310): it returns having stamped last_request_time.
TaskWait(t) ==
  /\ tasks[t].st = "waiting"
  /\ age' = 0
  /\ tasks' = [tasks EXCEPT ![t].waits = @ + 1,
                            ![t].since_wait = TRUE,
                            ![t].st = "crawling"]
  /\ UNCHANGED <<config, max_jitter, ppc, results, store, current_delay, success_count,
                 error_count, streak, limRest, crawlVars, retryVars, storeVars, dateVars, poolVars>>

\* The requests one crawl may send: crawl_profile_by_user_id sends one GET;
\* crawl_posts and crawl_comments_for_post send a GET and then POSTs.
RequestsOf(stage) == IF stage = 3 THEN 1 ELSE MaxRequests

\* The task's record after it has sent one more request
Sent(r) ==
  [r EXCEPT !.requests = @ + 1,
            !.unpaced = @ \/ ~r.since_wait,
            !.since_wait = FALSE]

\* session.get / session.post inside the crawl (http_get_initial,
\* http_get_more, http_get_thread_page), answered with a 2xx, and the
\* time.sleep(request_sleep + random.random() * jitter) that crawl_posts and
\* crawl_comments_for_post go on with.
TaskRequest(t) ==
  /\ tasks[t].st = "crawling"
  /\ tasks[t].requests < RequestsOf(StageOf(t))
  /\ tasks' = [tasks EXCEPT ![t] = Sent(tasks[t])]
  /\ max_jitter' = Max(max_jitter, CrawlJitter(StageOf(t)))
  /\ UNCHANGED <<config, ppc, results, store, crawlVars, retryVars, storeVars, dateVars, limVars, poolVars>>

\* finally: s.close() -- always in fetch_posts_for_group (lines 81-85), only
\* without the pool in the other two (lines 194-199, 335-340)
ClosesSession(t) ==
  closed' = IF StageOf(t) = 1 /\ use_session_pool
            THEN closed \cup {tasks[t].session}
            ELSE closed

\* The crawl returned: report_success() in stages 2 and 3 (lines 170-172,
\* 323-325); r is the task's record on return.
OnReturn(t, r) ==
  IF use_session_pool /\ StageOf(t) /= 1
  THEN /\ DoReportSuccess
       /\ tasks' = [tasks EXCEPT ![t] = [r EXCEPT !.successes = @ + 1]]
  ELSE /\ UNCHANGED <<current_delay, success_count, error_count, streak>>
       /\ tasks' = [tasks EXCEPT ![t] = r]

\* The crawl raised: the except block of stages 2 and 3 (lines 182-190,
\* 327-334); resp = getattr(e, 'response', None).
OnRaiseSilent(t, r, resp) ==
  /\ UNCHANGED <<current_delay, success_count, error_count, streak>>
  /\ tasks' = [tasks EXCEPT ![t] = r]
OnRaise(t, r, resp) ==
  IF use_session_pool /\ StageOf(t) /= 1
  THEN /\ DoReportError(IF ResponseTruthy(resp) THEN resp ELSE None)
       /\ tasks' = [tasks EXCEPT ![t] = [r EXCEPT !.errors = @ + 1]]
  ELSE /\ UNCHANGED <<current_delay, success_count, error_count, streak>>
       /\ tasks' = [tasks EXCEPT ![t] = r]

\* The crawl returns what it found; the task reports and returns its result.
TaskReturns(t) ==
  /\ tasks[t].st = "crawling"
  /\ tasks[t].requests >= 1
  /\ \E found \in FoundChoices(t) :
       OnReturn(t, [tasks[t] EXCEPT !.st = "done", !.found = found])
  /\ results' = Append(results, t)
  /\ ClosesSession(t)
  /\ UNCHANGED <<config, max_jitter, ppc, store, age, limRest, sessions, poolRest, crawlVars, retryVars, storeVars, dateVars>>

\* A request of the crawl raises (raise_for_status, or the connection fails):
\* neither crawl catches it; the task reports and re-raises.
TaskRaises(t, resp) ==
  /\ tasks[t].st = "crawling"
  /\ tasks[t].requests < RequestsOf(StageOf(t))
  /\ OnRaise(t, [Sent(tasks[t]) EXCEPT !.st = "failed", !.response = resp,
                                       !.attempts = AttemptsOf(use_session_pool, resp)], resp)
  /\ ClosesSession(t)
  /\ UNCHANGED <<config, max_jitter, ppc, results, store, age, limRest, sessions, poolRest,
                 crawlVars, retryVars, storeVars, dateVars>>

PipeNext ==
  \/ StartStage1
  \/ StartStage2
  \/ Stage1Raises
  \/ StartStage3
  \/ FinishPipeline
  \/ \E t \in TaskIds : TaskStart(t)
  \/ \E t \in TaskIds : TaskWait(t)
  \/ \E t \in TaskIds : TaskRequest(t)
  \/ \E t \in TaskIds : TaskReturns(t)
  \/ \E t \in TaskIds, resp \in ExcResponses : TaskRaises(t, resp)

\* C7: with the session pool enabled, every HTTP request of stages 1, 2 and 3
\* is preceded by its own wait() on the shared limiter: no task sends a
\* request before any wait(), nor two requests without a wait() between them.
C7_EveryRequestPaced ==
  use_session_pool => \A t \in TaskIds : ~tasks[t].unpaced

\* C8: with the session pool enabled, a stage-2 or stage-3 task calls wait()
\* exactly once, before its crawl, and then reports exactly one outcome:
\* report_success if the crawl returned, report_error if it raised.
C8_OneWaitOneOutcome ==
  use_session_pool =>
    \A t \in TasksOf(2) \cup TasksOf(3) :
      LET r == tasks[t] IN
      /\ r.st \in {"none", "queued", "waiting", "joined"} =>
            r.waits = 0 /\ r.requests = 0 /\ r.successes = 0 /\ r.errors = 0
      /\ r.st = "crawling" => r.waits = 1 /\ r.successes = 0 /\ r.errors = 0
      /\ r.st = "done" => r.waits = 1 /\ r.successes = 1 /\ r.errors = 0
      /\ r.st = "failed" => r.waits = 1 /\ r.successes = 0 /\ r.errors = 1

\* Stage 3 of a pooled run has ended with one profile task returned and the
\* other raised.
C8_Witness ==
  /\ use_session_pool
  /\ tasks[<<2, 1>>].st = "joined"
  /\ tasks[<<3, 1>>].st = "done"
  /\ tasks[<<3, 2>>].st = "failed"

Started(t) == tasks[t].st \notin {"none", "queued"}

\* C10: the stages are strictly sequential: no stage-2 task starts before
\* every stage-1 task has finished, and no stage-3 task starts before every
\* stage-2 task has finished.
C10_StagesSequential ==
  \A t \in TaskIds : \A u \in TaskIds :
    (StageOf(u) < StageOf(t) /\ Started(t)) =>
       tasks[u].st \in {"none", "done", "failed", "joined"}

\* Two groups were crawled in stage 1, two posts in stage 2, and two profile
\* tasks are running side by side in stage 3.
C10_Witness ==
  /\ group_name = "list"
  /\ tasks[<<1, 2>>].st = "joined"
  /\ tasks[<<2, 2>>].st = "joined"
  /\ tasks[<<3, 1>>].st = "crawling"
  /\ tasks[<<3, 2>>].st = "crawling"

\* C11: in every stage and for a single target as for a list of targets, an
\* exception raised by one crawl task is caught by the orchestrator: the
\* failed item is left out of the stage's results and the pipeline goes on to
\* the next stage; it never ends by that exception.
C11_TaskFailureIsCaught ==
  \A t \in TaskIds : tasks[t].st = "failed" => ppc /= "raised"

\* C12: the comments of a stage-2 task are persisted when that task
\* completes: while other stage-2 tasks are still queued or running, the
\* comments of every stage-2 task that has completed are in storage.
C12_CommentsSavedOnCompletion ==
  \A t \in TasksOf(2) : \A u \in TasksOf(2) :
    (tasks[t].st = "done" /\ tasks[u].st \in {"queued", "waiting", "crawling"}) =>
       tasks[t].item \in saved_comments

\* C14: a save that raises aborts only its own batch: the pipeline does not
\* end by raising what save_profile raised, and at its end the bundle of every
\* other completed stage-3 task that has a user_id is in storage.
C14_SaveFailureAbortsOnlyItsBatch ==
  /\ ppc /= "save_raised"
  /\ ppc \in {"end", "save_raised"} =>
       \A t \in TasksOf(3) :
         (tasks[t].st = "done" /\ tasks[t].found /= {} /\ ~SaveProfileRaises(tasks[t].found)) =>
            tasks[t].found \subseteq saved_profiles

\* The tasks a stage has submitted and not yet handed over to the next stage.
Submitted(stage) == {t \in TasksOf(stage) : tasks[t].st \notin {"none", "joined"}}

\* C19: in live mode stage 2 runs exactly one comment crawl task per distinct
\* (owner_id, post_id) that stage 1 produced: no two tasks have the same
\* pair, and the pairs of the tasks are the pairs of the posts of stage 1.
C19_OneCommentTaskPerPost ==
  (~collect_from_db /\ ppc = "join2") =>
    /\ \A t, u \in Submitted(2) : t /= u => tasks[t].item /= tasks[u].item
    /\ {tasks[t].item : t \in Submitted(2)} = saved_posts

\* Stage 1 ran two targets in live mode that brought three posts between
\* them, so one post twice, and stage 2 has two tasks.
C19_Witness ==
  /\ ~collect_from_db
  /\ ppc = "join2"
  /\ Cardinality(saved_posts) = 2
  /\ Cardinality(Submitted(2)) = 2
  /\ \E t \in TasksOf(2) : tasks[t].st = "done"

StageThreeMatchesCommenters ==
  /\ \A t, u \in Submitted(3) : t /= u => tasks[t].item /= tasks[u].item
  /\ {tasks[t].item[1] : t \in Submitted(3)} = {u \in saved_from_ids : u /= None /\ u > 0}

\* C20 as stated, for every run: stage 3 has exactly one task for each
\* distinct positive commenter id among the comments saved in stage 2.
C20_OneProfileTaskPerCommenter ==
  ppc \in {"join3", "end", "save_raised"} => StageThreeMatchesCommenters

\* C20 in live mode: stage 3 has exactly one task for each distinct positive
\* commenter id among the comments saved in stage 2, and none for a null,
\* zero or negative from_id.
C20_OneProfileTaskPerCommenterLive ==
  (~collect_from_db /\ ppc \in {"join3", "end", "save_raised"}) => StageThreeMatchesCommenters

\* A live run whose two posts' comments carried a user, a null, a zero and a
\* negative from_id: stage 3 has the one task of the user.
C20_Witness ==
  /\ ~collect_from_db
  /\ ppc = "join3"
  /\ Cardinality(saved_comments) = 2
  /\ saved_from_ids = {1, 0, -1, None}
  /\ Cardinality(Submitted(3)) = 1
  /\ \A t \in Submitted(3) : tasks[t].item = <<1>>

\* C27: a stage-2 or stage-3 task that fails reports its error with the
\* status of the response the failure carries: current_delay is multiplied
\* by 3 for 429, by 2 for 403 and 503, and by 1.5 only when the failure
\* carries no status (each clamped to max_delay).
C27_ErrorReportedWithStatus ==
  [][\A t \in TaskIds :
       (use_session_pool /\ StageOf(t) /= 1 /\
        tasks[t].st = "crawling" /\ tasks'[t].st = "failed") =>
          current_delay' =
            Min(max_delay,
                IF tasks'[t].response = 429 THEN 3 * current_delay
                ELSE IF tasks'[t].response \in {403, 503} THEN 2 * current_delay
                ELSE (3 * current_delay) \div 2)]_vars

\* C32: a page fetch of a task that ends in a connection-level failure or in
\* one of the statuses 429, 500, 502, 503, 504, 403 has been sent more than
\* once, as many times as the retry budget allows, before the task fails,
\* with a session of the pool and with a session of its own.
C32_FailedFetchWasRetried ==
  \A t \in TaskIds :
    (tasks[t].st = "failed" /\ tasks[t].response \in {None, 429, 500, 502, 503, 504, 403}) =>
       tasks[t].attempts = 1 + RetryTotal

\* C36: with collect_from_db stage 1 is skipped, a group_name
\* notwithstanding: no stage-1 task is submitted, so no post crawl request is
\* sent, and no post is saved by the run.
C36_FromDbSkipsStageOne ==
  collect_from_db =>
    /\ \A t \in TasksOf(1) : tasks[t].st = "none" /\ tasks[t].requests = 0
    /\ saved_posts = {}

\* C23: with fast_mode the worker count is at least 8 and no sleep of the
\* run, at the start of a task or between the pages of a crawl, has a jitter
\* above 0.
C23_FastModeRemovesJitter ==
  fast_mode => (PoolWorkers >= 8 /\ max_jitter = 0)

(***************************************************************************)
(* ------------------  PART 5: requests_get_with_retries  ---------------- *)
(***************************************************************************)

\* The largest max_retries of the model.
MaxRetries == 3

\* Intervals and sleeps are in milliseconds.
BASE_REQUEST_MIN_INTERVAL == 500
MAX_REQUEST_MIN_INTERVAL == 5000
REQUEST_BACKOFF_FACTOR == 800
REQUEST_JITTER == 250
MaxBackoffWait == 30000
DefaultRetryAfter == 5000

\* The outcome of session.get that is an exception, not a response.
Exc == 0

\* resp.status_code in (429, 503, 500, 502, 504, 403)
RetryableStatuses == {429, 503, 500, 502, 504, 403}
ResponseStatuses == {200, 404} \cup RetryableStatuses

\* A Retry-After header: absent, unreadable, or a number of seconds.
Unreadable == -998
RetryAfterValues == {None, Unreadable, -1, 0, 2}

\* body: whether it shows the browser-check page.
Responses == [status_code : ResponseStatuses, checking : BOOLEAN, retry_after : RetryAfterValues]

\* _increase_min_interval: times BACKOFF_MULTIPLIER = 1.5, at most the maximum.
IncreaseMinInterval(x) == Min(MAX_REQUEST_MIN_INTERVAL, (x * 3) \div 2)

\* _decay_min_interval: times DECAY_FACTOR = 0.85, at least the base, when
\* more than DECAY_AFTER has passed since the last increase.
DecayMinInterval(x, elapsed) ==
  IF x > BASE_REQUEST_MIN_INTERVAL /\ elapsed
  THEN Max(BASE_REQUEST_MIN_INTERVAL, (x * 85) \div 100)
  ELSE x

\* wait = min(backoff_factor * 2 ** (attempt - 1) + uniform(0, jitter), 30.0)
BackoffWait(a, j) == Min(REQUEST_BACKOFF_FACTOR * 2 ^ (a - 1) + j, MaxBackoffWait)
Jitters == {0, REQUEST_JITTER}

\* wait_sec = int(float(ra)), or 5 when that raises
WaitSec(ra) == IF ra = Unreadable THEN DefaultRetryAfter ELSE ra * 1000

RetryInit ==
  /\ max_retries \in 0..MaxRetries
  /\ attempt = 1
  /\ rpc = "loop"
  /\ outcomes = <<>>
  /\ wait = 0
  /\ last_exc = FALSE
  /\ current_min_interval = BASE_REQUEST_MIN_INTERVAL
  /\ ret = None

\* The variables of the call in the specifications that make no such call.
RetryIdle ==
  /\ max_retries = 0
  /\ attempt = 1
  /\ rpc = "returned"
  /\ outcomes = <<>>
  /\ wait = 0
  /\ last_exc = FALSE
  /\ current_min_interval = BASE_REQUEST_MIN_INTERVAL
  /\ ret = None

\* for attempt in range(1, max_retries + 1): throttle_requests()
ThrottleRequests ==
  /\ rpc = "loop"
  /\ attempt <= max_retries
  /\ \E elapsed \in BOOLEAN :
       current_min_interval' = DecayMinInterval(current_min_interval, elapsed)
  /\ rpc' = "get"
  /\ UNCHANGED <<max_retries, attempt, outcomes, wait, last_exc, ret>>
  /\ UNCHANGED notRetry

\* The loop is over: return None (lines 185-188).
Exhausted ==
  /\ rpc = "loop"
  /\ attempt > max_retries
  /\ ret' = None
  /\ rpc' = "returned"
  /\ UNCHANGED <<max_retries, attempt, outcomes, wait, last_exc, current_min_interval>>
  /\ UNCHANGED notRetry

\* An exception inside the try leaves the function.
OnExceptionPropagates(times) ==
  /\ rpc' = "raised"
  /\ UNCHANGED <<last_exc, current_min_interval, wait, ret>>

\* except Exception (lines 173-183): remember it, back off, sleep, continue.
\* `times` counts the calls of _increase_min_interval of this attempt.
OnException(times) ==
  /\ last_exc' = TRUE
  /\ current_min_interval' =
       (IF times = 2 THEN IncreaseMinInterval(IncreaseMinInterval(current_min_interval))
        ELSE IncreaseMinInterval(current_min_interval))
  /\ \E j \in Jitters : wait' = BackoffWait(attempt, j)
  /\ rpc' = "sleep"
  /\ UNCHANGED ret

\* The answer of one session.get (lines 139-171).
OnResponse(resp) ==
  IF resp.status_code = 200 /\ ~resp.checking
  THEN /\ ret' = resp.status_code
       /\ rpc' = "returned"
       /\ UNCHANGED <<last_exc, current_min_interval, wait>>
  ELSE IF resp.retry_after /= None
  THEN IF WaitSec(resp.retry_after) < 0
       THEN \* time.sleep raises ValueError for a negative length
            OnException(2)
       ELSE /\ current_min_interval' = IncreaseMinInterval(current_min_interval)
            /\ wait' = WaitSec(resp.retry_after)
            /\ rpc' = "sleep"
            /\ UNCHANGED <<last_exc, ret>>
  ELSE IF resp.status_code \in RetryableStatuses
  THEN /\ current_min_interval' = IncreaseMinInterval(current_min_interval)
       /\ \E j \in Jitters : wait' = BackoffWait(attempt, j)
       /\ rpc' = "sleep"
       /\ UNCHANGED <<last_exc, ret>>
  ELSE /\ ret' = resp.status_code
       /\ rpc' = "returned"
       /\ UNCHANGED <<last_exc, current_min_interval, wait>>

\* resp = session.get(url, timeout=timeout), and what follows it up to the
\* sleep or the return.
Get ==
  /\ rpc = "get"
  /\ \/ /\ outcomes' = Append(outcomes, Exc)
        /\ OnException(1)
     \/ \E resp \in Responses :
          /\ outcomes' = Append(outcomes, resp.status_code)
          /\ OnResponse(resp)
  /\ UNCHANGED <<max_retries, attempt>>
  /\ UNCHANGED notRetry

\* time.sleep(wait) is over; continue
Wake ==
  /\ rpc = "sleep"
  /\ attempt' = attempt + 1
  /\ wait' = 0
  /\ rpc' = "loop"
  /\ UNCHANGED <<max_retries, outcomes, last_exc, current_min_interval, ret>>
  /\ UNCHANGED notRetry

RetryNext == ThrottleRequests \/ Exhausted \/ Get \/ Wake

AllAttemptsFailed ==
  \A i \in 1..Len(outcomes) : outcomes[i] = Exc \/ outcomes[i] \in RetryableStatuses

\* C15: one call sends at most max_retries requests, always ends, and when
\* every attempt ended in an exception or in one of the statuses 429, 500,
\* 502, 503, 504, 403 it ends by returning None, never by raising.
C15_BoundedRetriesThenNone ==
  /\ [](Len(outcomes) <= max_retries)
  /\ <>(rpc \in {"returned", "raised"})
  /\ []((rpc \in {"returned", "raised"} /\ AllAttemptsFailed) =>
          (rpc = "returned" /\ ret = None))

\* A call that used its whole budget, on an exception, a 403 and a 503.
C15_Witness ==
  /\ rpc = "returned"
  /\ max_retries = 3
  /\ outcomes = <<Exc, 403, 503>>
  /\ ret = None

\* C33: a response whose status is not one of 429, 500, 502, 503, 504, 403
\* (a 404, or a 200 that was not returned as a success because its body
\* shows the browser-check page) ends the call: the step that receives it
\* returns it, whatever its headers, and no further request follows it.
C33_NonRetryableReturnedAtOnce ==
  /\ [][(rpc = "get" /\ Len(outcomes') = Len(outcomes) + 1
            /\ outcomes'[Len(outcomes')] \notin (RetryableStatuses \cup {Exc})) =>
          (rpc' = "returned" /\ ret' = outcomes'[Len(outcomes')])]_vars
  /\ [](\A i \in 1..Len(outcomes) :
          outcomes[i] \notin (RetryableStatuses \cup {Exc}) => i = Len(outcomes))

(***************************************************************************)
(* ------------  PART 6: save_posts, save_comments, save_profile  -------- *)
(*                                                                         *)
(* The three tables are disjoint; a behaviour writes one of them.  A       *)
(* comment is a record [key, items]: key is the natural key, items the     *)
(* list that becomes the child rows (text_features.mentions); its other    *)
(* columns are assigned from the input and are left out.  A post is a      *)
(* record [key, field, items]: field is its timestamp, items is            *)
(* attachments.images.  A profile bundle is a record [key, field, items]:  *)
(* field is one column of bundle["profile"] (None when absent), items is   *)
(* friends_sample.  A parent row is a record [id, key, field, updated_at]. *)
(* Each call is one transaction and one step.                              *)
(***************************************************************************)

MaxStoreKey == 2
MaxChild == 2
MaxChildren == 2
MaxBatch == 2
MaxClock == 1

Items == SeqsUpTo(1..MaxChild, MaxChildren)
Inputs == [key : 1..MaxStoreKey, items : Items]
Batches == SeqsUpTo(Inputs, MaxBatch)

\* A post as save_posts gets it: field is its timestamp, 0 when the date was
\* not read.
Posts == [key : 1..MaxStoreKey, field : {0, 1}, items : Items]

\* The posts the pipeline saves are the values of crawl_posts' dict, keyed
\* by (owner_id, post_id) (post_crawling.py:219).
PostBatches ==
  {b \in SeqsUpTo(Posts, MaxBatch) : \A i, j \in 1..Len(b) : b[i].key = b[j].key => i = j}

\* A comment as save_comments gets it; its mentions may be the list [None],
\* a handle the table of mentions refuses.
Comments == [key : 1..MaxStoreKey, items : Items \cup {<<None>>}]
CommentBatches == SeqsUpTo(Comments, MaxBatch)

\* bundle["profile"] may lack user_id.
Bundles == [key : (1..MaxStoreKey) \cup {None}, field : {None, 1}, items : Items]

StoreInit ==
  /\ table \in {"posts", "comments", "profiles"}
  /\ rows = {}
  /\ children = EmptyBag
  /\ clock = 0
  /\ arg = <<>>
  /\ sret = "none"
  /\ again = FALSE

StoreIdle ==
  /\ table = "posts"
  /\ rows = {}
  /\ children = EmptyBag
  /\ clock = 0
  /\ arg = <<>>
  /\ sret = "none"
  /\ again = FALSE

\* make_session: a session on the stored rows, nothing pending.
Transaction == [rows |-> rows, children |-> children, pending |-> EmptyBag, failed |-> FALSE]

\* The child rows session.add queues for parent id, one per element.
ChildBag(id, items) ==
  [c \in {[parent |-> id, val |-> items[i]] : i \in 1..Len(items)} |->
     Cardinality({i \in 1..Len(items) : items[i] = c.val})]

\* The unique constraints of the child tables: uq_comment_handle and
\* uq_friend_sample; uq_attachment_dedup holds href, which is NULL in an
\* image row, and SQLite takes NULLs as distinct.
\* CommentMention.handle is NOT NULL.
Violates(c) == table /= "posts" /\ \E e \in DOMAIN c : c[e] > 1 \/ e.val = None

\* session.flush() and the flush of session.commit(): the pending INSERTs
\* run; IntegrityError when one breaks a unique constraint.
Flush(S) ==
  LET c == S.children (+) S.pending
  IN  [S EXCEPT !.children = c, !.pending = EmptyBag, !.failed = S.failed \/ Violates(c)]

\* The head of upsert_*: the row of the key (one_or_none), or a new one.
RowOf(S, key) ==
  IF \E r \in S.rows : r.key = key THEN CHOOSE r \in S.rows : r.key = key
  ELSE [id |-> Cardinality(S.rows) + 1, key |-> key, field |-> None, updated_at |-> None]

\* The tail of upsert_*: session.add(rec) and session.flush() for a new
\* row (is_new); the attribute writes on a row that was found.
Upsert(S, rec) ==
  IF \E r \in S.rows : r.key = rec.key
  THEN [S EXCEPT !.rows = {IF r.key = rec.key THEN rec ELSE r : r \in S.rows}]
  ELSE Flush([S EXCEPT !.rows = S.rows \cup {rec}])

\* if p.get("timestamp"): rec.timestamp = p["timestamp"]; the column of a
\* new row takes its default, 0.
upsert_post(S, p) ==
  LET rec == RowOf(S, p.key)
  IN  Upsert(S, [rec EXCEPT !.field = IF p.field /= 0 THEN p.field
                                      ELSE IF rec.field = None THEN 0 ELSE rec.field])

upsert_comment(S, c) == Upsert(S, RowOf(S, c.key))

\* setattr(rec, k, v) for the items of p; rec.updated_at = int(time.time())
upsert_profile(S, p, seconds) ==
  LET rec == RowOf(S, p.key)
  IN  Upsert(S, [rec EXCEPT !.field = IF p.field /= None THEN p.field ELSE rec.field,
                            !.updated_at = seconds])

\* query(...).filter_by(post_id=rec.id).delete(synchronize_session=False):
\* a DELETE on the rows already flushed; under no_autoflush the pending
\* ones stay.
DeleteChildren(S, id) ==
  [S EXCEPT !.children = [c \in {x \in DOMAIN S.children : x.parent /= id} |-> S.children[c]]]

\* One PostAttachment per element of attachments.images.
replace_children(S, id, p) ==
  LET T == DeleteChildren(S, id)
  IN  [T EXCEPT !.pending = T.pending (+) ChildBag(id, p.items)]

\* One CommentMention per element of sorted(set(mentions)).
replace_comment_children(S, id, c) ==
  LET T == DeleteChildren(S, id)
  IN  [T EXCEPT !.pending = T.pending (+) SetToBag({[parent |-> id, val |-> v] : v \in Range(c.items)})]

\* One ProfileFriendSample per element of friends_sample.
replace_profile_children(S, id, bundle) ==
  LET T == DeleteChildren(S, id)
  IN  [T EXCEPT !.pending = T.pending (+) ChildBag(id, bundle.items)]

\* for p in posts: rec = upsert_post(session, p); replace_children(session, rec, p)
RECURSIVE PostsLoop(_, _)
PostsLoop(S, posts) ==
  IF posts = <<>> THEN S
  ELSE LET T == upsert_post(S, Head(posts))
       IN  PostsLoop(replace_children(T, RowOf(T, Head(posts).key).id, Head(posts)), Tail(posts))

\* The mutant of Deduped: every comment is kept.
KeepAll(comments) == comments

\* deduped[key] = c for c in comments; deduped.values(): one comment per
\* key, the last one, at the place of the first.
Deduped(comments) ==
  LET firsts == {i \in 1..Len(comments) : \A j \in 1..(i - 1) : comments[j].key /= comments[i].key}
      Nth(n) == CHOOSE i \in firsts : Cardinality({j \in firsts : j < i}) = n - 1
      Latest(k) == comments[CHOOSE i \in 1..Len(comments) :
                              comments[i].key = k /\ \A j \in (i + 1)..Len(comments) : comments[j].key /= k]
  IN  [n \in 1..Cardinality(firsts) |-> Latest(comments[Nth(n)].key)]

\* for c in deduped.values(): rec = upsert_comment(session, c);
\* replace_comment_children(session, rec, c)
RECURSIVE CommentsLoop(_, _)
CommentsLoop(S, cs) ==
  IF cs = <<>> THEN S
  ELSE LET T == upsert_comment(S, Head(cs))
       IN  CommentsLoop(replace_comment_children(T, RowOf(T, Head(cs).key).id, Head(cs)), Tail(cs))

\* Commit without the rollback: what the transaction had flushed when it
\* failed stays.
CommitKeepsFlushed(S, input) ==
  LET T == Flush(S)
  IN  /\ IF T.failed
         THEN sret' = "raised" /\ rows' = S.rows /\ children' = S.children
         ELSE sret' = "ok" /\ rows' = T.rows /\ children' = T.children
      /\ arg' = input
      /\ again' = (sret = "ok" /\ input = arg)

\* session.commit(), or session.rollback() and raise on an exception;
\* session.close().
Commit(S, input) ==
  LET T == Flush(S)
  IN  /\ IF T.failed
         THEN sret' = "raised" /\ UNCHANGED <<rows, children>>
         ELSE sret' = "ok" /\ rows' = T.rows /\ children' = T.children
      /\ arg' = input
      /\ again' = (sret = "ok" /\ input = arg)

save_posts(posts) ==
  /\ table = "posts"
  /\ Commit(PostsLoop(Transaction, posts), posts)
  /\ UNCHANGED <<table, clock>>
  /\ UNCHANGED notStore

save_comments(comments) ==
  /\ table = "comments"
  /\ Commit(CommentsLoop(Transaction, Deduped(comments)), comments)
  /\ UNCHANGED <<table, clock>>
  /\ UNCHANGED notStore

\* if not p.get("user_id"): raise
save_profile(bundle) ==
  /\ table = "profiles"
  /\ \E seconds \in clock..MaxClock :
       /\ clock' = seconds
       /\ IF bundle.key = None
          THEN Commit([Transaction EXCEPT !.failed = TRUE], <<bundle>>)
          ELSE LET T == upsert_profile(Transaction, bundle, seconds)
               IN  Commit(replace_profile_children(T, RowOf(T, bundle.key).id, bundle), <<bundle>>)
  /\ UNCHANGED table
  /\ UNCHANGED notStore

StoreNext ==
  \/ \E posts \in PostBatches : save_posts(posts)
  \/ \E comments \in CommentBatches : save_comments(comments)
  \/ \E bundle \in Bundles : save_profile(bundle)

\* The child rows stored for the row of key k.
ChildrenOf(k) ==
  LET ids == {r.id : r \in {x \in rows : x.key = k}}
  IN  [c \in {x \in DOMAIN children : x.parent \in ids} |-> children[c]]

\* The latest element of the argument with the key of its i-th element.
LatestOf(i) ==
  arg[CHOOSE j \in 1..Len(arg) : arg[j].key = arg[i].key /\ \A n \in (j + 1)..Len(arg) : arg[n].key /= arg[i].key]

\* The parent rows without the time of the save.
Undated(rs) == {[id |-> r.id, key |-> r.key, field |-> r.field] : r \in rs}

\* After a call that returned there is one parent row per natural key, and
\* each parent of the argument has exactly the children of its latest
\* element: one row per element of the list (per distinct mention for a
\* comment).
OneRowAndLatestChildren ==
  /\ \A r1, r2 \in rows : (r1.key = r2.key \/ r1.id = r2.id) => r1 = r2
  /\ sret = "ok" =>
       \A i \in 1..Len(arg) :
         /\ \E r \in rows : r.key = arg[i].key
         /\ LET r == CHOOSE x \in rows : x.key = arg[i].key
                e == LatestOf(i)
            IN  ChildrenOf(arg[i].key) =
                  (IF table = "comments"
                   THEN SetToBag({[parent |-> r.id, val |-> v] : v \in Range(e.items)})
                   ELSE [c \in {[parent |-> r.id, val |-> e.items[n]] : n \in 1..Len(e.items)} |->
                           Cardinality({n \in 1..Len(e.items) : e.items[n] = c.val})])

C34_FailedSaveChangesNothing ==
  [][sret' = "raised" => (rows' = rows /\ children' = children)]_vars

\* save_comments has raised on a batch of two: its first comment was new
\* and had been upserted and flushed, its second carries the refused
\* mention; nothing of the first is stored.
C34_Witness ==
  /\ table = "comments"
  /\ sret = "raised"
  /\ Len(arg) = 2
  /\ arg[1].key /= arg[2].key
  /\ arg[1].items = <<1, 2>>
  /\ arg[2].items = <<None>>
  /\ rows /= {}
  /\ \A r \in rows : r.key /= arg[1].key

\* C35: when save_posts stores an observation of a post whose key has a
\* row already, there is still exactly one row of the key, and the row
\* holds the value of the new observation, a 0 included.
C35_LatestObservationWins ==
  [][(table = "posts" /\ sret' = "ok") =>
       \A i \in 1..Len(arg') :
         (\E r \in rows : r.key = arg'[i].key) =>
            /\ Cardinality({r \in rows' : r.key = arg'[i].key}) = 1
            /\ \A r \in rows' : r.key = arg'[i].key => r.field = arg'[i].field]_vars

Num(n) == [t |-> "num", w |-> "", n |-> n, m |-> 0]
Word(w) == [t |-> "word", w |-> w, n |-> 0, m |-> 0]
Clock(h, mi) == [t |-> "time", w |-> "", n |-> h, m |-> mi]

\* The arguments of the calls.
DayMonthTexts == {<<Num(d), Word(w)>> : d \in {1, 28, 29, 31}, w \in {"jan", "feb", "february", "dec", "foo"}}
TimeTexts ==
  {<<Word("at"), Clock(c[1], c[2])>> \o x :
     c \in {<<0, 0>>, <<3, 0>>, <<12, 0>>, <<12, 1>>, <<23, 59>>},
     x \in {<<>>, <<Word("am")>>, <<Word("pm")>>}}
DateTexts ==
  {[some |-> FALSE, toks |-> <<>>]} \cup
  {[some |-> TRUE, toks |-> x] : x \in
     {<<>>, <<Word("foo")>>, <<Num(5)>>, <<Num(5), Word("at")>>, <<Num(123), Word("jan")>>,
      <<Num(5), Word("jan"), Num(24)>>, <<Word("today")>>, <<Word("ago")>>}
     \cup DayMonthTexts
     \cup {dm \o tt : dm \in DayMonthTexts, tt \in TimeTexts}
     \cup {dm \o <<Num(y)>> : dm \in DayMonthTexts, y \in {1970, 2024}}
     \cup {dm \o <<Num(y)>> \o tt : dm \in DayMonthTexts, y \in {1970, 2024}, tt \in TimeTexts}
     \cup {<<Word(w)>> \o tt : w \in {"yesterday", "today"}, tt \in TimeTexts}
     \cup {<<c, Word(u), Word("ago")>> : c \in {Num(1), Num(10), Word("two"), Word("foo")}, u \in {"hour", "minutes"}}}

\* The days of month mo of year y.
DaysIn(y, mo) ==
  LET leap == y % 4 = 0 /\ (y % 100 /= 0 \/ y % 400 = 0)
  IN  IF mo = 2 THEN (IF leap THEN 29 ELSE 28)
      ELSE IF mo \in {4, 6, 9, 11} THEN 30 ELSE 31

\* datetime(y, mo, d, h, mi) does not raise ValueError.
IsDate(y, mo, d, h, mi) ==
  /\ y >= 1 /\ y <= 9999
  /\ mo \in 1..12
  /\ d >= 1 /\ d <= DaysIn(y, mo)
  /\ h >= 0 /\ h <= 23
  /\ mi >= 0 /\ mi <= 59

Nows ==
  {n \in [y : {2024, 2025}, mo : {1, 2, 12}, d : {1, 27, 28, 31}, h : {0, 12}, mi : {0}] :
     IsDate(n.y, n.mo, n.d, n.h, n.mi)}

\* The minutes from 1970-01-01 00:00 to the wall time.
Minutes(y, mo, d, h, mi) ==
  LET L(x) == (x \div 4) - (x \div 100) + (x \div 400)
      before == <<0, 31, 59, 90, 120, 151, 181, 212, 243, 273, 304, 334>>
      days == 365 * (y - 1970) + L(y - 1) - L(1969) + before[mo]
                + (IF mo > 2 /\ DaysIn(y, 2) = 29 THEN 1 ELSE 0) + (d - 1)
  IN  days * 1440 + h * 60 + mi

\* The mutant of Timestamp: the wall time read as UTC.
TimestampUtc(y, mo, d, h, mi) == Minutes(y, mo, d, h, mi) * 60

\* int(dtz.localize(datetime(y, mo, d, h, mi)).timestamp())
Timestamp(y, mo, d, h, mi) == (Minutes(y, mo, d, h, mi) - 180) * 60

\* MONTHS_EN.get(mon[:5], MONTHS_EN.get(mon[:3], 1)), mon the first five
\* letters of the word: the month of its first three letters, or 1.
MonthOf(w) ==
  IF w = "jan" THEN 1
  ELSE IF w \in {"feb", "february"} THEN 2
  ELSE IF w = "dec" THEN 12
  ELSE 1

\* if ap == "pm" and h != 12: h += 12; if ap == "am" and h == 12: h = 0
Hour(h, ap) ==
  IF ap = "pm" /\ h /= 12 THEN h + 12
  ELSE IF ap = "am" /\ h = 12 THEN 0
  ELSE h

\* The keys of words, in the order of their values 1..10.
CountWords == <<"one", "two", "three", "four", "five", "six", "seven", "eight", "nine", "ten">>

\* re.match of the p-th regular expression, in the order of the code.  A
\* word fits [a-z]{3,5}[a-z]* when it has three letters or more.
Matches(p, s) ==
  LET IsDay(k) == k.t = "num" /\ k.n <= 99
      IsMonth(k) == k.t = "word" /\ k.w \notin {"at", "am", "pm"}
      IsYear(k) == k.t = "num" /\ k.n >= 1000 /\ k.n <= 9999
      IsTime(k) == k.t = "time" /\ k.n <= 99
      IsAmPm(k) == k \in {Word("am"), Word("pm")}
      TimeAt(i) == Len(s) >= i + 1 /\ s[i] = Word("at") /\ IsTime(s[i + 1])
      TimeTail(i) == TimeAt(i) /\ (Len(s) = i + 1 \/ (Len(s) = i + 2 /\ IsAmPm(s[i + 2])))
  IN  CASE p = 1 -> Len(s) >= 3 /\ IsDay(s[1]) /\ IsMonth(s[2]) /\ IsYear(s[3])
                      /\ (Len(s) = 3 \/ TimeTail(4))
        [] p = 2 -> Len(s) >= 2 /\ IsDay(s[1]) /\ IsMonth(s[2]) /\ TimeTail(3)
        [] p = 3 -> Len(s) = 2 /\ IsDay(s[1]) /\ IsMonth(s[2])
        [] p = 4 -> Len(s) >= 1 /\ s[1] \in {Word("yesterday"), Word("today")} /\ TimeAt(2)
        [] p = 5 -> /\ Len(s) >= 3
                    /\ (s[1].t = "num" \/ (s[1].t = "word" /\ s[1].w \in Range(CountWords)))
                    /\ s[2] \in {Word("hour"), Word("hours"), Word("minute"), Word("minutes")}
                    /\ s[3] = Word("ago")

\* The value normalize_date returns, or raised when a datetime it builds
\* does not exist.
normalize_date(text, n) ==
  LET s == text.toks
      Value(v) == [raised |-> FALSE, v |-> v]
      ValueError == [raised |-> TRUE, v |-> 0]
      At(y, mo, d, h, mi) ==
        IF IsDate(y, mo, d, h, mi) THEN Value(Timestamp(y, mo, d, h, mi)) ELSE ValueError
      ap(i) == IF Len(s) >= i /\ s[i] \in {Word("am"), Word("pm")} THEN s[i].w ELSE ""
      \* datetime(now.year, ...); if dt - now > timedelta(days=1): now.year - 1
      InYear(d, mo, h, mi) ==
        IF ~IsDate(n.y, mo, d, h, mi) THEN ValueError
        ELSE IF Minutes(n.y, mo, d, h, mi) - Minutes(n.y, n.mo, n.d, n.h, n.mi) > 1440
             THEN At(n.y - 1, mo, d, h, mi)
             ELSE At(n.y, mo, d, h, mi)
  IN  IF ~text.some \/ s = <<>> THEN Value(0)
      ELSE IF Matches(1, s)
        THEN IF Len(s) > 3
             THEN At(s[3].n, MonthOf(s[2].w), s[1].n, Hour(s[5].n, ap(6)), s[5].m)
             ELSE At(s[3].n, MonthOf(s[2].w), s[1].n, 0, 0)
      ELSE IF Matches(2, s) THEN InYear(s[1].n, MonthOf(s[2].w), Hour(s[4].n, ap(5)), s[4].m)
      ELSE IF Matches(3, s) THEN InYear(s[1].n, MonthOf(s[2].w), 0, 0)
      ELSE IF Matches(4, s)
        THEN LET h == Hour(s[3].n, ap(4))
             IN  IF h > 23 \/ s[3].m > 59 THEN ValueError
                 ELSE Value(Timestamp(n.y, n.mo, n.d, h, s[3].m)
                              - (IF s[1] = Word("yesterday") THEN 86400 ELSE 0))
      ELSE IF Matches(5, s)
        THEN LET c == IF s[1].t = "num" THEN s[1].n
                      ELSE CHOOSE i \in 1..10 : CountWords[i] = s[1].w
             IN  Value(Timestamp(n.y, n.mo, n.d, n.h, n.mi)
                         - c * (IF s[2] \in {Word("hour"), Word("hours")} THEN 3600 ELSE 60))
      ELSE Value(0)

DateInit ==
  /\ date_text \in DateTexts
  /\ now \in Nows
  /\ npc = "call"
  /\ date_ret = 0

DateIdle ==
  /\ date_text = [some |-> FALSE, toks |-> <<>>]
  /\ now = [y |-> 2024, mo |-> 1, d |-> 1, h |-> 0, mi |-> 0]
  /\ npc = "returned"
  /\ date_ret = 0

NormalizeDate ==
  /\ npc = "call"
  /\ LET r == normalize_date(date_text, now)
     IN  /\ npc' = (IF r.raised THEN "raised" ELSE "returned")
         /\ date_ret' = r.v
  /\ UNCHANGED <<date_text, now>>
  /\ UNCHANGED notDate

DateNext == NormalizeDate

\* The text is "D Month" or "D Month at H:MM", Month the name of a month or
\* its first three letters, and names a minute of the reference year.
IsDayMonth ==
  LET s == date_text.toks
  IN  /\ date_text.some
      /\ Len(s) \in {2, 4}
      /\ s[1].t = "num" /\ s[2].t = "word" /\ s[2].w \in {"jan", "feb", "february", "dec"}
      /\ Len(s) = 4 => (s[3] = Word("at") /\ s[4].t = "time")
      /\ IsDate(now.y, MonthOf(s[2].w), s[1].n, IF Len(s) = 4 THEN s[4].n ELSE 0,
                IF Len(s) = 4 THEN s[4].m ELSE 0)

\* C24: for "D Month" and "D Month at H:MM" the call returns the instant
\* of the reference year, or of the year before if and only if the former
\* is more than 24 hours after now; the result is at most one day after
\* now.
C24_RollsBackOneYear ==
  (npc /= "call" /\ IsDayMonth) =>
     LET s == date_text.toks
         mo == MonthOf(s[2].w)
         h == IF Len(s) = 4 THEN s[4].n ELSE 0
         mi == IF Len(s) = 4 THEN s[4].m ELSE 0
         here == Timestamp(now.y, mo, s[1].n, h, mi)
         nowts == Timestamp(now.y, now.mo, now.d, now.h, now.mi)
     IN  /\ npc = "returned"
         /\ date_ret = (IF here - nowts > 86400
                        THEN Timestamp(now.y - 1, mo, s[1].n, h, mi) ELSE here)
         /\ date_ret <= nowts + 86400

\* The text is one the five patterns recognise.
Recognised == date_text.some /\ \E p \in 1..5 : Matches(p, date_text.toks)

InitCrawl == CrawlInit /\ LimiterInit /\ PoolIdle /\ PipeIdle /\ RetryIdle /\ StoreIdle /\ DateIdle

SpecCrawl == InitCrawl /\ [][CrawlNext]_vars

\* A crawl runs in one thread and every request it sends returns or raises
\* within its timeout, every sleep ends.
SpecCrawlFair == InitCrawl /\ [][CrawlNext]_vars /\ WF_vars(CrawlNext)

InitLimiter == LimiterInit /\ CrawlIdle /\ PoolIdle /\ PipeIdle /\ RetryIdle /\ StoreIdle /\ DateIdle

InitPool == PoolInit /\ CrawlIdle /\ LimiterInit /\ PipeIdle /\ RetryIdle /\ StoreIdle /\ DateIdle

SpecPool == InitPool /\ [][PoolNext]_vars

Init == PipeInit /\ CrawlIdle /\ LimiterInit /\ PoolIdle /\ RetryIdle /\ StoreIdle /\ DateIdle

Next == PipeNext

Spec == Init /\ [][Next]_vars

SpecLimiter == InitLimiter /\ [][LimiterNext]_vars

InitRetry == RetryInit /\ CrawlIdle /\ LimiterInit /\ PoolIdle /\ PipeIdle /\ StoreIdle /\ DateIdle

\* The call runs in one thread that nothing suspends for ever: a sleep ends
\* and session.get returns or raises within its timeout.
\* The limiter and the pool called by the same threads; a thread inside a
\* with block is scheduled, and time goes by.
SpecLocks == InitLimiter /\ [][LockNext]_vars /\ LockFairness

SpecRetry == InitRetry /\ [][RetryNext]_vars /\ WF_vars(RetryNext)

InitStore == StoreInit /\ CrawlIdle /\ LimiterInit /\ PoolIdle /\ PipeIdle /\ RetryIdle /\ DateIdle

SpecStore == InitStore /\ [][StoreNext]_vars

InitDate == DateInit /\ CrawlIdle /\ LimiterInit /\ PoolIdle /\ PipeIdle /\ RetryIdle /\ StoreIdle

SpecDate == InitDate /\ [][DateNext]_vars

====
